---- MODULE Spec2Model ----
(***************************************************************************)
(* Option-trading engine: the persisted record storage/trade.json and the  *)
(* stages that read and write it (compute_vwap.py, option.greek.py,        *)
(* trade.py), chained by run_strategy.py.                                  *)
(*                                                                         *)
(* Money amounts of the strategy stage are whole currency units; the       *)
(* products with 0.40 and 0.5 are kept exact by scaling (an amount "in     *)
(* fifths" is five times the amount).  On whole units the float            *)
(* arithmetic of trade.py gives the same comparisons as exact arithmetic.  *)
(***************************************************************************)
EXTENDS Integers, Sequences, FiniteSets, TLC

VARIABLES
    pc,           \* the stage run_strategy.py is about to run ("idle": no run)
    exit_code,    \* exit status of the stage that ran last
    trade,        \* the content of storage/trade.json
    hist,         \* history of the cycles so far (kept by SpecHist only)
    candles_file, \* the "data" of storage/candles/<token>.json for one token
    vwap_run,     \* the last call of the VWAP engine: its input and outcome
    lookup,       \* the last call of the symbol resolver: its input and outcome
    selection,    \* the last call of the delta / hedge selector: input and outcome
    ltp_fetch,    \* the last pair of price fetches: the replies and what was returned
    sched         \* scheduler.py: the clock, the timer of the run, stages left behind

vars == <<pc, exit_code, trade, hist, candles_file, vwap_run, lookup, selection,
          ltp_fetch, sched>>

engine_vars == <<pc, exit_code, trade, hist>>

vwap_vars == <<candles_file, vwap_run, lookup>>

\* A Python value that is None or a list of bars.
NoList == [kind |-> "none", bars |-> <<>>]

ListOf(bars) == [kind |-> "list", bars |-> bars]

\* No call of the VWAP engine has been made.
NoRun == [kind |-> "none"]

\* The scheduler before it has looked at a job.
NoSched == [at |-> 1, started |-> 0, elapsed |-> 0, orphans |-> {}, last |-> "none"]

(***************************************************************************)
(* Input domains                                                           *)
(***************************************************************************)

\* Last traded prices an LTP fetch can return (0 is also the fail-soft value).
Prices == {0, 20, 1000}

\* The (call strike, put strike) wings the delta selector can pick.
SelectedStrikes == {<<26000, 25000>>, <<26050, 24950>>}

\* Live price of a hedge candidate.
HedgePrices == {5}

\* Cap on the length of the hedge-history log explored.
MaxHedges == 2

Abs(x) == IF x < 0 THEN 0 - x ELSE x

RECURSIVE SumSeq(_)
SumSeq(s) == IF s = <<>> THEN 0 ELSE Head(s) + SumSeq(Tail(s))

(***************************************************************************)
(* trade.py                                                                *)
(***************************************************************************)

\* What the "ltp" of a reply's data can be: missing, null, text that is not a
\* number, or a number.
LtpFields ==
    {[kind |-> k, value |-> 0] : k \in {"absent", "null", "text"}}
        \cup {[kind |-> "num", value |-> p] : p \in Prices}

\* What the "data" of a reply can be: missing, null, a non-empty list, or an
\* object with or without an ltp.
LtpData ==
    {[kind |-> k, ltp |-> [kind |-> "absent", value |-> 0]] :
        k \in {"absent", "null", "list"}}
        \cup {[kind |-> "object", ltp |-> l] : l \in LtpFields}

\* The body of a response: not JSON, JSON that is not an object, or an object
\* whose status is missing, false or true.
LtpBodies ==
    {[json |-> j, status |-> "absent", data |-> [kind |-> "absent",
                                                 ltp |-> [kind |-> "absent", value |-> 0]]] :
        j \in {"invalid", "list"}}
        \cup {[json |-> "object", status |-> st, data |-> d] :
                 st \in {"absent", "false", "true"}, d \in LtpData}

StatusCodes == {200, 401, 500}

\* What one requests.post of the LTP endpoint does: it raises (connection
\* error, timeout) or answers with a status code and a body.
LtpOutcomes ==
    {[kind |-> k, status_code |-> 0, body |-> b] :
        k \in {"exception", "timeout"},
        b \in {[json |-> "invalid", status |-> "absent",
                data |-> [kind |-> "absent", ltp |-> [kind |-> "absent", value |-> 0]]]}}
        \cup {[kind |-> "response", status_code |-> c, body |-> b] :
                 c \in StatusCodes, b \in LtpBodies}

\* (mutation: the status code of the response is not looked at)
raise_for_status_never(status_code) == FALSE

\* Response.raise_for_status raises for a 4xx or 5xx status.
raise_for_status(status_code) == status_code >= 400

Raised == [raised |-> TRUE, value |-> 0]

Returned(v) == [raised |-> FALSE, value |-> v]

\* float(d.get("ltp", 0.0))
float_of_ltp(ltp) ==
    CASE ltp.kind = "absent" -> Returned(0)
      [] ltp.kind = "num" -> Returned(ltp.value)
      [] OTHER -> Raised

\* The body of the try block of get_ltp_from_angel.
ltp_try(o) ==
    IF o.kind # "response" THEN Raised
    ELSE IF raise_for_status(o.status_code) THEN Raised
    ELSE IF o.body.json = "invalid" THEN Raised
    ELSE IF o.body.json # "object" THEN Raised
    ELSE IF o.body.status # "true" THEN Returned(0)
    ELSE IF o.body.data.kind \in {"absent", "null"} THEN Returned(0)
    ELSE IF o.body.data.kind # "object" THEN Raised
    ELSE float_of_ltp(o.body.data.ltp)

\* try: ... except Exception: return 0.0
ltp_call(o) ==
    IF ltp_try(o).raised THEN Returned(0) ELSE ltp_try(o)

get_ltp_from_angel(o) == ltp_call(o).value

\* What the two fetches of a stage can return.
LtpResults == {get_ltp_from_angel(o) : o \in LtpOutcomes}

\* final_pair[leg].get("ltp", 0.0) or live price
sold_price(leg, live) ==
    IF leg.ltp # 0 THEN leg.ltp ELSE live

\* total_sold_premium * 0.40, in fifths
threshold_40_sold(total_sold_premium) ==
    2 * total_sold_premium

\* threshold_40_sold - total, in fifths
live_loss(threshold, total) ==
    threshold - 5 * total

\* (mutation: the comparison with the threshold itself included)
hedge_needed_or_equal(loss) ==
    loss >= 0

hedge_needed(loss) ==
    loss > 0

\* (mutation: compared with half the threshold below zero)
add_new_option_below_zero(loss, threshold) ==
    2 * loss > 0 - threshold

\* live_loss > threshold_40_sold * 0.5
add_new_option(loss, threshold) ==
    2 * loss > threshold

\* abs(live_loss) * 2, in fifths
total_strategy_loss(loss) ==
    Abs(loss) * 2

\* total_strategy_loss >= 1500
exit_strategy(strategy_loss) ==
    strategy_loss >= 5 * 1500

\* (mutation: the trigger without the hedge_needed conjunct)
hedge_trigger_vwap_only(call, put, needed) ==
    call.vwapStatus = "Below" \/ put.vwapStatus = "Below"

\* (call.vwapStatus == "Below" or put.vwapStatus == "Below") and hedge_needed
hedge_trigger(call, put, needed) ==
    (call.vwapStatus = "Below" \/ put.vwapStatus = "Below") /\ needed

NoStatus ==
    [kind |-> "absent", sold_call |-> 0, sold_put |-> 0, live_call |-> 0,
     live_put |-> 0, live_loss |-> 0, hedge_needed |-> FALSE,
     add_new_option |-> FALSE, exit_strategy |-> FALSE, hedge_active |-> FALSE]

\* The strategyStatus record built each cycle (hedge_active is not a key yet).
strategy_status(final_pair, call_price, put_price) ==
    LET sold_call == sold_price(final_pair.call, call_price)
        sold_put == sold_price(final_pair.put, put_price)
        threshold == threshold_40_sold(sold_call + sold_put)
        loss == live_loss(threshold, call_price + put_price)
    IN  [kind |-> "set", sold_call |-> sold_call, sold_put |-> sold_put,
         live_call |-> call_price, live_put |-> put_price, live_loss |-> loss,
         hedge_needed |-> hedge_needed(loss),
         add_new_option |-> add_new_option(loss, threshold),
         exit_strategy |-> exit_strategy(total_strategy_loss(loss)),
         hedge_active |-> FALSE]

\* The hedge branch raises (IndexError, KeyError) before anything is saved when
\* a candidate list is empty or trade.json has no "hedges" key.
hedge_raises(trade_data) ==
    \/ Len(trade_data.hedgeOptions.call_5rs) = 0
    \/ Len(trade_data.hedgeOptions.put_5rs) = 0
    \/ trade_data.hedges.kind = "absent"

hedge_entry(trade_data) ==
    [call |-> trade_data.hedgeOptions.call_5rs[1],
     put |-> trade_data.hedgeOptions.put_5rs[1],
     reason |-> "VWAP_Below",
     total_cost |-> trade_data.hedgeOptions.hedgeCost]

\* One evaluation cycle: the record saved, or raised with nothing saved.
update_premium_levels(trade_data, call_price, put_price) ==
    LET status == strategy_status(trade_data.finalPair, call_price, put_price)
        fire == hedge_trigger(trade_data.finalPair.call, trade_data.finalPair.put,
                              status.hedge_needed)
    IN  IF ~fire
        THEN [raised |-> FALSE,
              trade |-> [trade_data EXCEPT !.strategyStatus = status]]
        ELSE IF hedge_raises(trade_data)
        THEN [raised |-> TRUE, trade |-> trade_data]
        ELSE [raised |-> FALSE,
              trade |-> [trade_data EXCEPT
                  !.hedges = [kind |-> "list",
                              log |-> Append(trade_data.hedges.log, hedge_entry(trade_data))],
                  !.strategyStatus = [status EXCEPT !.hedge_active = TRUE]]]

(***************************************************************************)
(* compute_vwap.py main: the per-leg result written into finalPair         *)
(***************************************************************************)

VwapStatuses == {"Above", "Below", "unknown"}

compute_vwap_main(trade_data, call_status, put_status) ==
    [trade_data EXCEPT !.finalPair.call.vwapStatus = call_status,
                       !.finalPair.put.vwapStatus = put_status]

(***************************************************************************)
(* option.greek.py fetch_option_greek: the record that replaces trade.json *)
(***************************************************************************)

NewLeg(strike, ltp) ==
    [strikePrice |-> strike, ltp |-> ltp, vwapStatus |-> "absent"]

\* find_nearest_5rs_hedge_options fills up to 2 legs whenever 2 eligible entries
\* exist; the empty list is the chain without an eligible entry.
HedgeLists == {<<>>} \cup {<<p, q>> : p \in HedgePrices, q \in HedgePrices}

\* result = {targetDelta, nearestCE, nearestPE, finalPair, positions, hedgeOptions}
\* (a leg whose token was not found is saved with ltp 0.0, as after a failed fetch)
fetch_option_greek(ce, pe, call_ltp, put_ltp, hedge_ce, hedge_pe) ==
    [finalPair |-> [call |-> NewLeg(ce, call_ltp), put |-> NewLeg(pe, put_ltp)],
     hedgeOptions |-> [call_5rs |-> hedge_ce, put_5rs |-> hedge_pe,
                       hedgeCost |-> SumSeq(hedge_ce) + SumSeq(hedge_pe)],
     hedges |-> [kind |-> "absent", log |-> <<>>],
     strategyStatus |-> NoStatus]

(***************************************************************************)
(* The persisted record at start: a selection saved earlier, with the      *)
(* "hedges" key either missing, null or an empty list.                     *)
(***************************************************************************)

SeedsOver(S, P, L, kinds) ==
    {[fetch_option_greek(st[1], st[2], cl, pl, hc, hp) EXCEPT
          !.hedges = [kind |-> k, log |-> <<>>]] :
        st \in S, cl \in P, pl \in P, hc \in L, hp \in L, k \in kinds}

SeedTrades == SeedsOver(SelectedStrikes, Prices, HedgeLists, {"absent", "null", "list"})

NoSold == [strike |-> 0, price |-> 0]

NoHist == [everExited |-> FALSE, sold_call |-> NoSold, sold_put |-> NoSold]

Init ==
    /\ pc = "idle"
    /\ exit_code = 0
    /\ trade \in SeedTrades
    /\ hist = NoHist
    /\ selection = NoRun
    /\ ltp_fetch = NoRun
    /\ sched = NoSched
    /\ candles_file = NoList
    /\ vwap_run = NoRun
    /\ lookup = NoRun

HedgeLog(t) == t.hedges.log

\* What a saved cycle adds to the history: whether an exit was ever signalled,
\* and the sold price used for each leg that has a recorded entry price.
SoldUsed(leg, sold, old) ==
    IF leg.ltp # 0 THEN [strike |-> leg.strikePrice, price |-> sold] ELSE old

Track(h, t, r) ==
    IF r.raised THEN h
    ELSE [everExited |-> (h.everExited \/ r.trade.strategyStatus.exit_strategy),
          sold_call |-> SoldUsed(t.finalPair.call, r.trade.strategyStatus.sold_call,
                                 h.sold_call),
          sold_put |-> SoldUsed(t.finalPair.put, r.trade.strategyStatus.sold_put,
                                h.sold_put)]

(***************************************************************************)
(* run_strategy.py: the stages in order, each a subprocess                 *)
(***************************************************************************)

\* scheduler.py / a manual start of run_strategy.py
StartRun ==
    /\ pc = "idle"
    /\ pc' = "auth"
    /\ exit_code' = 0
    /\ UNCHANGED <<trade, hist, vwap_vars, selection, ltp_fetch, sched>>

\* (mutation: the runner goes on after a stage that exited non-zero)
AuthenticationUnchecked ==
    /\ pc = "auth"
    /\ \E ok \in BOOLEAN :
          /\ pc' = "vwap"
          /\ exit_code' = IF ok THEN 0 ELSE 1
    /\ UNCHANGED <<trade, hist, vwap_vars, selection, ltp_fetch, sched>>

\* services/auth.py: exits 0 or non-zero, trade.json untouched
Authentication ==
    /\ pc = "auth"
    /\ \E ok \in BOOLEAN :
          /\ pc' = IF ok THEN "vwap" ELSE "idle"
          /\ exit_code' = IF ok THEN 0 ELSE 1
    /\ UNCHANGED <<trade, hist, vwap_vars, selection, ltp_fetch, sched>>

\* services/compute_vwap.py
VwapComputation ==
    /\ pc = "vwap"
    /\ \E cs \in VwapStatuses, ps \in VwapStatuses :
          trade' = compute_vwap_main(trade, cs, ps)
    /\ pc' = "greek"
    /\ exit_code' = 0
    /\ UNCHANGED <<hist, vwap_vars, selection, ltp_fetch, sched>>

\* services/option_greek1.py, HTTP status other than 200: returns, nothing saved
DeltaSelectionFailed ==
    /\ pc = "greek"
    /\ pc' = "trade"
    /\ exit_code' = 0
    /\ UNCHANGED <<trade, hist, vwap_vars, selection, ltp_fetch, sched>>

\* services/option_greek1.py, an empty side of the chain: raises, nothing saved
DeltaSelectionRaised ==
    /\ pc = "greek"
    /\ pc' = "idle"
    /\ exit_code' = 1
    /\ UNCHANGED <<trade, hist, vwap_vars, selection, ltp_fetch, sched>>

\* services/option_greek1.py, a chain was returned: trade.json is replaced
DeltaSelection ==
    /\ pc = "greek"
    /\ \E st \in SelectedStrikes, cl \in LtpResults, pl \in LtpResults,
          hc \in HedgeLists, hp \in HedgeLists :
          trade' = fetch_option_greek(st[1], st[2], cl, pl, hc, hp)
    /\ pc' = "trade"
    /\ exit_code' = 0
    /\ UNCHANGED <<hist, vwap_vars, selection, ltp_fetch, sched>>

\* services/trade.py with live prices from P; tracked: the history is kept
TradeStep(P, tracked) ==
    /\ pc = "trade"
    /\ \E call_price \in P, put_price \in P :
          LET r == update_premium_levels(trade, call_price, put_price)
          IN  /\ Len(HedgeLog(r.trade)) <= MaxHedges
              /\ trade' = r.trade
              /\ exit_code' = IF r.raised THEN 1 ELSE 0
              /\ hist' = IF tracked THEN Track(hist, trade, r) ELSE hist
    /\ pc' = "idle"
    /\ UNCHANGED <<vwap_vars, selection, ltp_fetch, sched>>

TradeExecution == TradeStep(LtpResults, FALSE)

TradeExecutionTracked == TradeStep(LtpResults, TRUE)

Next ==
    \/ StartRun
    \/ Authentication
    \/ VwapComputation
    \/ DeltaSelectionFailed
    \/ DeltaSelectionRaised
    \/ DeltaSelection
    \/ TradeExecution

Spec == Init /\ [][Next]_vars

(***************************************************************************)
(* The same engine with the history of its cycles kept, started from a     *)
(* record whose "hedges" key is an empty list.                             *)
(***************************************************************************)

InitHist ==
    /\ pc = "idle"
    /\ exit_code = 0
    /\ trade \in SeedsOver(SelectedStrikes, Prices, HedgeLists, {"list"})
    /\ hist = NoHist
    /\ selection = NoRun
    /\ ltp_fetch = NoRun
    /\ sched = NoSched
    /\ candles_file = NoList
    /\ vwap_run = NoRun
    /\ lookup = NoRun

NextHist ==
    \/ StartRun
    \/ Authentication
    \/ VwapComputation
    \/ DeltaSelectionFailed
    \/ DeltaSelectionRaised
    \/ DeltaSelection
    \/ TradeExecutionTracked

SpecHist == InitHist /\ [][NextHist]_vars

(***************************************************************************)
(* One evaluation cycle of trade.py as a function of its inputs: the       *)
(* persisted record and the two live prices, over a wider range of prices. *)
(***************************************************************************)

CyclePrices == {0, 15, 25, 30, 50, 1000}

InitCycle ==
    /\ pc = "trade"
    /\ exit_code = 0
    /\ \E seed \in SeedsOver({<<26000, 25000>>}, CyclePrices, {<<5, 5>>}, {"list"}),
          cs \in VwapStatuses, ps \in VwapStatuses :
          trade = compute_vwap_main(seed, cs, ps)
    /\ hist = NoHist
    /\ selection = NoRun
    /\ ltp_fetch = NoRun
    /\ sched = NoSched
    /\ candles_file = NoList
    /\ vwap_run = NoRun
    /\ lookup = NoRun

EvaluateCycle == TradeStep(CyclePrices, FALSE)

NextCycle == EvaluateCycle

SpecCycle == InitCycle /\ [][NextCycle]_vars

(***************************************************************************)
(* compute_vwap.py: binary floating point.  Python floats are binary64     *)
(* (53 significant bits, round to nearest, ties to even); the model keeps  *)
(* the rounding rule at a reduced number of significant bits.  A float is  *)
(* an integer count of units, the unit being a fixed power of two: prices  *)
(* are counted in price units, volumes in contracts.                       *)
(***************************************************************************)

\* Significant bits of a float.
Precision == 5

RECURSIVE Pow2(_)
Pow2(n) == IF n = 0 THEN 1 ELSE 2 * Pow2(n - 1)

\* n/d rounded to the nearest integer, ties to the even one (n >= 0, d > 0).
RoundHalfEven(n, d) ==
    LET f == n \div d
        r == n % d
    IN  IF 2 * r < d THEN f
        ELSE IF 2 * r > d THEN f + 1
        ELSE IF f % 2 = 0 THEN f ELSE f + 1

\* The spacing of the floats around n/d: the least power of two g with
\* n/d < 2^Precision * g.
RECURSIVE Granule(_, _, _)
Granule(n, d, g) ==
    IF n < Pow2(Precision) * g * d THEN g ELSE Granule(n, d, 2 * g)

\* The float nearest to the exact quotient n/d.
Fl(n, d) ==
    LET g == Granule(n, d, 1)
    IN  RoundHalfEven(n, d * g) * g

fadd(a, b) == Fl(a + b, 1)

fmul(a, b) == Fl(a * b, 1)

fdiv(a, b) == Fl(a, b)

\* round(x, 6): the nearest multiple of the decimal step, ties to even.  The
\* decimal step is coarser than the floats around a price and finer than the
\* price tick.
DecimalGrid == 2

round6(x) == RoundHalfEven(x, DecimalGrid) * DecimalGrid

\* An Optional[float].
NoFloat == [kind |-> "none", value |-> 0]

Float(v) == [kind |-> "num", value |-> v]

(***************************************************************************)
(* compute_vwap.py: bars and the VWAP of a bar series                      *)
(***************************************************************************)

\* Prices of a bar, multiples of the tick.
PriceLevels == {20, 22, 24}

\* Traded volumes of a bar.
Volumes == {0, 1, 2}

\* Bars [timestamp, open, high, low, close, volume] as an exchange reports
\* them: low <= close <= high, volume >= 0.
OkBars ==
    {[shape |-> "ok", high |-> h, low |-> l, close |-> c, vol |-> v] :
        h \in PriceLevels, l \in PriceLevels, c \in PriceLevels, v \in Volumes}

WellFormedBars == {b \in OkBars : b.low <= b.close /\ b.close <= b.high}

\* Other list entries: a bar of five fields (no volume), a bar whose high is
\* not a number, a bar whose close is not a number, a bar whose volume is not
\* a number.
OddBars ==
    {[shape |-> "no_volume_field", high |-> 24, low |-> 20, close |-> 22, vol |-> 0],
     [shape |-> "bad_high", high |-> 0, low |-> 20, close |-> 20, vol |-> 1],
     [shape |-> "bad_close", high |-> 24, low |-> 20, close |-> 0, vol |-> 1],
     [shape |-> "bad_volume", high |-> 24, low |-> 22, close |-> 24, vol |-> 0]}

Bars == WellFormedBars \cup OddBars

\* Longest bar series of the pure-function check.
MaxBars == 2

BarSeries == UNION {[1..n -> Bars] : n \in 0..MaxBars}

\* (mutation: only an unreadable close makes the loop skip a bar)
bar_is_counted_unless_bad_close(c) == c.shape # "bad_close"

\* The try block of the loop completes for this bar (no float() raises).
bar_is_counted(c) == c.shape \in {"ok", "no_volume_field"}

\* vol = float(c[5]) if len(c) > 5 else 0.0
bar_volume(c) == IF c.shape = "no_volume_field" THEN 0 ELSE c.vol

\* (mutation: the typical price without the close)
typical_price_high_only(c) == c.high

\* tp = (high + low + close) / 3.0
typical_price(c) == fdiv(fadd(fadd(c.high, c.low), c.close), 3)

\* The loop of compute_vwap_from_candles over the bars from index i on.
RECURSIVE vwap_sums(_, _, _, _)
vwap_sums(candles, i, num, den) ==
    IF i > Len(candles) THEN [num |-> num, den |-> den]
    ELSE IF bar_is_counted(candles[i])
         THEN vwap_sums(candles, i + 1,
                        fadd(num, fmul(typical_price(candles[i]), bar_volume(candles[i]))),
                        fadd(den, bar_volume(candles[i])))
         ELSE vwap_sums(candles, i + 1, num, den)

compute_vwap_from_candles(candles) ==
    IF candles = <<>> THEN NoFloat
    ELSE LET s == vwap_sums(candles, 1, 0, 0)
         IN  IF s.den = 0 THEN NoFloat ELSE Float(fdiv(s.num, s.den))

\* The close of the last bar, from index i downwards, whose close is a number.
RECURSIVE last_close_from(_, _)
last_close_from(candles, i) ==
    IF i = 0 THEN NoFloat
    ELSE IF candles[i].shape # "bad_close" THEN Float(candles[i].close)
         ELSE last_close_from(candles, i - 1)

last_close_from_candles(candles) == last_close_from(candles, Len(candles))

(***************************************************************************)
(* compute_vwap_from_candles as a function of its input                    *)
(***************************************************************************)

InitVwap ==
    /\ pc = "idle"
    /\ exit_code = 0
    /\ trade \in SeedsOver({<<26000, 25000>>}, {20}, {<<5, 5>>}, {"list"})
    /\ hist = NoHist
    /\ selection = NoRun
    /\ ltp_fetch = NoRun
    /\ sched = NoSched
    /\ candles_file = NoList
    /\ \E candles \in BarSeries :
          vwap_run = [kind |-> "input", candles |-> candles,
                      sums |-> [num |-> 0, den |-> 0],
                      vwap |-> NoFloat, last_close |-> NoFloat]
    /\ lookup = NoRun

ComputeVwap ==
    /\ vwap_run.kind = "input"
    /\ vwap_run' = [kind |-> "computed", candles |-> vwap_run.candles,
                    sums |-> vwap_sums(vwap_run.candles, 1, 0, 0),
                    vwap |-> compute_vwap_from_candles(vwap_run.candles),
                    last_close |-> last_close_from_candles(vwap_run.candles)]
    /\ UNCHANGED <<engine_vars, selection, ltp_fetch, candles_file, lookup, sched>>

NextVwap == ComputeVwap

SpecVwap == InitVwap /\ [][NextVwap]_vars

(***************************************************************************)
(* compute_vwap.py: the bar fetch, the candle file, process_instrument     *)
(***************************************************************************)

RETRIES == 2

BACKOFF_FACTOR == 1

\* Bar series a response or the candle file can hold: none, bars without
\* volume, a series whose VWAP is above its last close, one whose is not.
LadderSeries ==
    {<<>>,
     <<[shape |-> "ok", high |-> 22, low |-> 20, close |-> 20, vol |-> 0]>>,
     <<[shape |-> "ok", high |-> 24, low |-> 24, close |-> 24, vol |-> 2],
       [shape |-> "ok", high |-> 24, low |-> 20, close |-> 20, vol |-> 1]>>,
     <<[shape |-> "ok", high |-> 24, low |-> 20, close |-> 24, vol |-> 1]>>}

\* What one requests.post of the candle endpoint does: it raises (timeout,
\* connection error), or answers with a body that is not JSON, or with JSON
\* whose status is false, or with JSON whose status is true and whose "data"
\* is null or a list of bars.
ExceptionResponse == [kind |-> "exception", data |-> NoList]

HttpResponses ==
    {[kind |-> k, data |-> NoList] : k \in {"exception", "non_json", "status_false", "ok"}}
    \cup {[kind |-> "ok", data |-> ListOf(bars)] : bars \in LadderSeries}

\* The responses to the successive attempts of one fetch.
FetchScripts ==
    {<<r, ExceptionResponse, ExceptionResponse>> : r \in HttpResponses}
    \cup {<<ExceptionResponse, [kind |-> "ok", data |-> ListOf(<<>>)], ExceptionResponse>>,
          <<ExceptionResponse, ExceptionResponse, [kind |-> "non_json", data |-> NoList]>>}

\* save_raw_candles followed by load_candles_from_file: the "data" of the
\* response saved last (a body that is not JSON is saved without "data").
saved_data(response) ==
    IF response.kind = "non_json" THEN NoList ELSE response.data

\* j.get("data") or []
data_or_empty(data) == IF data.kind = "none" THEN ListOf(<<>>) ELSE data

\* fetch_candles_for_token from attempt number `attempt` on: the value
\* returned, the candle file afterwards, the number of requests made and the
\* seconds slept.
RECURSIVE fetch_attempts(_, _, _, _)
fetch_attempts(script, attempt, file, slept) ==
    IF attempt > RETRIES
    THEN [value |-> NoList, file |-> file, requests |-> attempt, slept |-> slept]
    ELSE LET r == script[attempt + 1]
         IN  CASE r.kind = "exception" ->
                    fetch_attempts(script, attempt + 1, file,
                                   slept + BACKOFF_FACTOR * (attempt + 1))
               [] r.kind = "non_json" ->
                    [value |-> NoList, file |-> saved_data(r),
                     requests |-> attempt + 1, slept |-> slept]
               [] r.kind = "status_false" ->
                    [value |-> NoList, file |-> saved_data(r),
                     requests |-> attempt + 1, slept |-> slept]
               [] OTHER ->
                    [value |-> data_or_empty(r.data), file |-> saved_data(r),
                     requests |-> attempt + 1, slept |-> slept]

\* (mutation: no sleep between the attempts)
fetch_candles_without_backoff(script, file) ==
    [fetch_attempts(script, 0, file, 0) EXCEPT !.slept = 0]

fetch_candles_for_token(script, file) == fetch_attempts(script, 0, file, 0)

\* (mutation: the candle file is not read)
load_candles_never(file) == NoList

load_candles_from_file(file) == file

\* The leg handed to process_instrument and what the token lookup gives: an
\* empty object, a leg carrying symbolToken, a leg without it for which
\* try_find_token finds a token, a leg for which it finds none.
SideObjects == {"empty", "with_token", "token_found", "token_not_found"}

\* (mutation: a failure result without its reason)
failure_result_without_reason(reason) ==
    [vwap |-> NoFloat, vwapStatus |-> "unknown", vwapFailureReason |-> "None"]

\* (mutation: a failure that still carries a bias tag)
failure_result_tagged(reason) ==
    [vwap |-> NoFloat, vwapStatus |-> "Below", vwapFailureReason |-> reason]

\* result as initialised, with vwapFailureReason set ("None": Python None)
failure_result(reason) ==
    [vwap |-> NoFloat, vwapStatus |-> "unknown", vwapFailureReason |-> reason]

\* One try of the ladder: the source, what it yielded, the requests it made
\* and the seconds it slept.
Attempt(source, yield, requests, slept) ==
    [source |-> source, yield |-> yield, requests |-> requests, slept |-> slept]

is_none_or_empty(candles) == candles.kind = "none" \/ candles.bars = <<>>

\* Lines 419-434: the candle file first, then the fetches.
bar_ladder(file, s1, s2, s3) ==
    LET cached == load_candles_from_file(file)
        a0 == <<Attempt("cached", cached, 0, 0)>>
    IN  IF ~is_none_or_empty(cached)
        THEN [candles |-> cached, attempts |-> a0, file |-> file]
        ELSE
          LET f1 == fetch_candles_for_token(s1, file)
              a1 == Append(a0, Attempt("live_1min", f1.value, f1.requests, f1.slept))
          IN  IF f1.value.kind # "none"
              THEN [candles |-> f1.value, attempts |-> a1, file |-> f1.file]
              ELSE
                LET f2 == fetch_candles_for_token(s2, f1.file)
                    a2 == Append(a1, Attempt("prev_day_1min", f2.value, f2.requests,
                                                    f2.slept))
                IN  IF f2.value.kind # "none"
                    THEN [candles |-> f2.value, attempts |-> a2, file |-> f2.file]
                    ELSE
                      LET f3 == fetch_candles_for_token(s3, f2.file)
                      IN  [candles |-> f3.value,
                           attempts |-> Append(a2, Attempt("hourly_30d", f3.value,
                                                            f3.requests, f3.slept)),
                           file |-> f3.file]

\* (mutation: a tie counted as Above)
bias_tag_ties_above(vwap, last_close) ==
    IF vwap >= last_close THEN "Above" ELSE "Below"

\* "Above" if vwap > last_close else "Below"
bias_tag(vwap, last_close) ==
    IF vwap > last_close THEN "Above" ELSE "Below"

\* Lines 436-454: the result for the bars obtained.
vwap_result(candles) ==
    IF candles.kind = "none" THEN failure_result("api_error_or_nonjson")
    ELSE IF candles.bars = <<>> THEN failure_result("no_candles")
    ELSE
      LET vwap == compute_vwap_from_candles(candles.bars)
          last_close == last_close_from_candles(candles.bars)
      IN  IF vwap.kind = "none" \/ last_close.kind = "none"
          THEN failure_result("no_volume_or_bad_candles")
          ELSE [vwap |-> Float(round6(vwap.value)),
                vwapStatus |-> bias_tag(vwap.value, last_close.value),
                vwapFailureReason |-> "None"]

process_instrument(side_obj, file, s1, s2, s3) ==
    IF side_obj = "empty"
    THEN [result |-> failure_result("no_instrument"), candles |-> NoList,
          attempts |-> <<>>, file |-> file]
    ELSE IF side_obj = "token_not_found"
    THEN [result |-> failure_result("token_not_found"), candles |-> NoList,
          attempts |-> <<>>, file |-> file]
    ELSE
      LET l == bar_ladder(file, s1, s2, s3)
      IN  [result |-> vwap_result(l.candles), candles |-> l.candles,
           attempts |-> l.attempts, file |-> l.file]

(***************************************************************************)
(* process_instrument called again and again for one token                 *)
(***************************************************************************)

InitLadder ==
    /\ pc = "idle"
    /\ exit_code = 0
    /\ trade \in SeedsOver({<<26000, 25000>>}, {20}, {<<5, 5>>}, {"list"})
    /\ hist = NoHist
    /\ selection = NoRun
    /\ ltp_fetch = NoRun
    /\ sched = NoSched
    /\ candles_file \in {NoList} \cup {ListOf(bars) : bars \in LadderSeries}
    /\ vwap_run = NoRun
    /\ lookup = NoRun

\* A leg for which no token is known: no request is made.
ProcessUnresolved ==
    /\ \E side_obj \in {"empty", "token_not_found"} :
          LET none == <<ExceptionResponse, ExceptionResponse, ExceptionResponse>>
              r == process_instrument(side_obj, candles_file, none, none, none)
          IN  /\ vwap_run' = [kind |-> "processed", result |-> r.result,
                              candles |-> r.candles, attempts |-> r.attempts]
              /\ candles_file' = r.file
    /\ UNCHANGED <<engine_vars, selection, ltp_fetch, lookup, sched>>

\* A leg with a token; s1, s2, s3 are what the three fetches would be answered.
ProcessInstrument ==
    /\ \E side_obj \in {"with_token", "token_found"}, s1 \in FetchScripts,
          s2 \in FetchScripts, s3 \in FetchScripts :
          LET r == process_instrument(side_obj, candles_file, s1, s2, s3)
          IN  /\ vwap_run' = [kind |-> "processed", result |-> r.result,
                              candles |-> r.candles, attempts |-> r.attempts]
              /\ candles_file' = r.file
    /\ UNCHANGED <<engine_vars, selection, ltp_fetch, lookup, sched>>

NextLadder ==
    \/ ProcessUnresolved
    \/ ProcessInstrument

SpecLadder == InitLadder /\ [][NextLadder]_vars

(***************************************************************************)
(* process_instrument on a candle file holding any bar series              *)
(***************************************************************************)

AllExceptions == <<ExceptionResponse, ExceptionResponse, ExceptionResponse>>

EmptyAnswer ==
    <<[kind |-> "ok", data |-> ListOf(<<>>)], ExceptionResponse, ExceptionResponse>>

InitResult ==
    /\ pc = "idle"
    /\ exit_code = 0
    /\ trade \in SeedsOver({<<26000, 25000>>}, {20}, {<<5, 5>>}, {"list"})
    /\ hist = NoHist
    /\ selection = NoRun
    /\ ltp_fetch = NoRun
    /\ sched = NoSched
    /\ candles_file \in {ListOf(bars) : bars \in BarSeries}
    /\ vwap_run = NoRun
    /\ lookup = NoRun

\* One call; when the file holds no bars the live fetch fails or answers an
\* empty list, and the two later fetches fail.
ProcessCached ==
    /\ vwap_run = NoRun
    /\ \E side_obj \in SideObjects, s1 \in {AllExceptions, EmptyAnswer} :
          LET r == process_instrument(side_obj, candles_file, s1, AllExceptions,
                                      AllExceptions)
          IN  /\ vwap_run' = [kind |-> "processed", result |-> r.result,
                              candles |-> r.candles, attempts |-> r.attempts]
              /\ candles_file' = r.file
    /\ UNCHANGED <<engine_vars, selection, ltp_fetch, lookup, sched>>

NextResult == ProcessCached

SpecResult == InitResult /\ [][NextResult]_vars

(***************************************************************************)
(* compute_vwap.py: strings, expiry and strike normalisation, the symbol   *)
(* variants.  A string is the sequence of its characters.                  *)
(***************************************************************************)

UpperChars == <<"A", "B", "C", "D", "E", "F", "I", "J", "N", "O", "P", "T", "Y">>

LowerChars == <<"a", "b", "c", "d", "e", "f", "i", "j", "n", "o", "p", "t", "y">>

DigitChars == <<"0", "1", "2", "3", "4", "5", "6", "7", "8", "9">>

upper_char(c) ==
    IF \E i \in 1..Len(LowerChars) : LowerChars[i] = c
    THEN UpperChars[CHOOSE i \in 1..Len(LowerChars) : LowerChars[i] = c]
    ELSE c

lower_char(c) ==
    IF \E i \in 1..Len(UpperChars) : UpperChars[i] = c
    THEN LowerChars[CHOOSE i \in 1..Len(UpperChars) : UpperChars[i] = c]
    ELSE c

\* str.upper(), str.lower()
upper(str) == [i \in 1..Len(str) |-> upper_char(str[i])]

lower(str) == [i \in 1..Len(str) |-> lower_char(str[i])]

\* needle in hay
contains(hay, needle) ==
    \E i \in 0..(Len(hay) - Len(needle)) :
        \A k \in 1..Len(needle) : hay[i + k] = needle[k]

\* str(n) for an integer n >= 0
RECURSIVE int_str(_)
int_str(n) ==
    IF n < 10 THEN <<DigitChars[n + 1]>>
    ELSE Append(int_str(n \div 10), DigitChars[(n % 10) + 1])

\* A strike is a number of thousandths of a point (NIFTY strikes are whole
\* points; stock options have strikes such as 102.5), or no number at all.
NoStrike == [kind |-> "none", mills |-> 0]

Strike(mills) == [kind |-> "num", mills |-> mills]

\* str(int(float(strike))), or str(strike) when strike is no number
strike_i(strike) ==
    IF strike.kind = "num" THEN int_str(strike.mills \div 1000)
    ELSE <<"N", "o", "n", "e">>

\* round(float(val), 2), or None
normalize_strike(val) ==
    IF val.kind = "num" THEN Strike(RoundHalfEven(val.mills, 10) * 10) ELSE NoStrike

\* The expiry strings of the model with what normalize_expiry returns for
\* them: the three accepted formats of one date, another date, a string in no
\* accepted format (normalised to None), and no expiry.
ISO_13JAN == <<"2", "0", "2", "6", "-", "0", "1", "-", "1", "3">>

ISO_20JAN == <<"2", "0", "2", "6", "-", "0", "1", "-", "2", "0">>

ExpiryTable ==
    {[raw |-> ISO_13JAN, iso |-> ISO_13JAN],
     [raw |-> <<"1", "3", "J", "A", "N", "2", "0", "2", "6">>, iso |-> ISO_13JAN],
     [raw |-> <<"1", "3", "-", "J", "a", "n", "-", "2", "0", "2", "6">>, iso |-> ISO_13JAN],
     [raw |-> ISO_20JAN, iso |-> ISO_20JAN],
     [raw |-> <<"1", "3", "J", "A", "N", "2", "6">>, iso |-> <<>>],
     [raw |-> <<>>, iso |-> <<>>]}

Expiries == {e.raw : e \in ExpiryTable}

\* normalize_expiry(expiry) or ""
normalize_expiry(expiry) == (CHOOSE e \in ExpiryTable : e.raw = expiry).iso

\* (mutation: the lower-cased copies appended without de-duplication)
dedupe_nothing(variants, i, out) == variants

\* The de-duplication loop of build_symbol_variants from index i on.
RECURSIVE dedupe(_, _, _)
dedupe(variants, i, out) ==
    IF i > Len(variants) THEN out
    ELSE IF \E k \in 1..Len(out) : out[k] = variants[i]
         THEN dedupe(variants, i + 1, out)
         ELSE dedupe(variants, i + 1, Append(out, variants[i]))

\* Lines 107-113: the six patterns and their lower-cased copies.
raw_symbol_variants(name, expiry, strike, opt_type) ==
    LET e == normalize_expiry(expiry)
        k == strike_i(strike)
        variants == <<name \o e \o k \o opt_type,
                      name \o k \o opt_type,
                      name \o opt_type \o k,
                      name \o e \o k,
                      name \o k,
                      k \o opt_type>>
    IN  variants \o [i \in 1..Len(variants) |-> lower(variants[i])]

build_symbol_variants(name, expiry, strike, opt_type) ==
    dedupe(raw_symbol_variants(name, expiry, strike, opt_type), 1, <<>>)

(***************************************************************************)
(* build_symbol_variants as a function of its input                        *)
(***************************************************************************)

NIFTY == <<"N", "I", "F", "T", "Y">>

CE == <<"C", "E">>

PE == <<"P", "E">>

Names == {NIFTY, lower(NIFTY), <<>>}

OptionTypes == {CE, PE, lower(CE), <<>>}

Strikes == {Strike(100000), Strike(102500), Strike(26000000), NoStrike}

Requests ==
    [name : Names, expiry : Expiries, strike : Strikes, opt_type : OptionTypes]

InitVariants ==
    /\ pc = "idle"
    /\ exit_code = 0
    /\ trade \in SeedsOver({<<26000, 25000>>}, {20}, {<<5, 5>>}, {"list"})
    /\ hist = NoHist
    /\ selection = NoRun
    /\ ltp_fetch = NoRun
    /\ sched = NoSched
    /\ candles_file = NoList
    /\ vwap_run = NoRun
    /\ \E q \in Requests :
          lookup = [kind |-> "request", request |-> q, variants |-> <<>>, again |-> <<>>]

BuildVariants ==
    /\ lookup.kind = "request"
    /\ LET q == lookup.request
       IN  lookup' = [lookup EXCEPT
                         !.kind = "built",
                         !.variants = build_symbol_variants(q.name, q.expiry, q.strike,
                                                            q.opt_type)]
    /\ UNCHANGED <<engine_vars, selection, ltp_fetch, candles_file, vwap_run, sched>>

BuildVariantsAgain ==
    /\ lookup.kind = "built"
    /\ LET q == lookup.request
       IN  lookup' = [lookup EXCEPT
                         !.kind = "built_twice",
                         !.again = build_symbol_variants(q.name, q.expiry, q.strike,
                                                         q.opt_type)]
    /\ UNCHANGED <<engine_vars, selection, ltp_fetch, candles_file, vwap_run, sched>>

NextVariants ==
    \/ BuildVariants
    \/ BuildVariantsAgain

SpecVariants == InitVariants /\ [][NextVariants]_vars

(***************************************************************************)
(* compute_vwap.py: find_token_from_entries and try_find_token             *)
(***************************************************************************)

\* Python None where a token (a TLA+ string) is expected.
NoToken == "None"

\* An entry of a source: its trading symbol and token ("" and NoToken when
\* absent), its strike and its option kind; shape "not_dict" is a list element
\* that is no dict (ent.get raises).
Entry(trad, token, strike, opt) ==
    [shape |-> "dict", trad |-> trad, token |-> token, strike |-> strike, opt |-> opt]

\* The symbol variants matching of lines 146-148 for one entry.
symbol_match(ent, variants) ==
    \E i \in 1..Len(variants) : contains(upper(ent.trad), upper(variants[i]))

\* (mutation: the strike fallback also requires the option kind)
strike_match_same_kind(ent, strike, opt_type) ==
    LET ent_str == normalize_strike(ent.strike)
        target_strike_n == normalize_strike(strike)
    IN  /\ ent_str.kind = "num"
        /\ target_strike_n.kind = "num"
        /\ ent_str = target_strike_n
        /\ opt_type # <<>>
        /\ contains(upper(ent.opt), upper(opt_type))

\* The strike fallback of lines 150-160: the option kind is compared, and the
\* token is returned whatever the comparison gives.
strike_match(ent, strike, opt_type) ==
    LET ent_str == normalize_strike(ent.strike)
        target_strike_n == normalize_strike(strike)
    IN  /\ ent_str.kind = "num"
        /\ target_strike_n.kind = "num"
        /\ ent_str = target_strike_n

\* The body of the loop for one entry: the token returned, or NoToken when
\* the loop goes on to the next entry.
entry_token(ent, variants, strike, opt_type) ==
    IF ent.shape # "dict" THEN NoToken
    ELSE IF ent.trad = <<>> \/ ent.token = NoToken THEN NoToken
    ELSE IF symbol_match(ent, variants) THEN ent.token
    ELSE IF strike_match(ent, strike, opt_type) THEN ent.token
    ELSE NoToken

RECURSIVE first_token(_, _, _, _, _)
first_token(entries, i, variants, strike, opt_type) ==
    IF i > Len(entries) THEN NoToken
    ELSE LET t == entry_token(entries[i], variants, strike, opt_type)
         IN  IF t # NoToken THEN t
             ELSE first_token(entries, i + 1, variants, strike, opt_type)

find_token_from_entries(entries, name, expiry, strike, opt_type) ==
    IF entries = <<>> THEN NoToken
    ELSE first_token(entries, 1, build_symbol_variants(name, expiry, strike, opt_type),
                     strike, opt_type)

\* f"{normalize_expiry(expiry)}": the text "None" when nothing is returned.
expiry_text(expiry) ==
    IF normalize_expiry(expiry) = <<>> THEN <<"N", "o", "n", "e">>
    ELSE normalize_expiry(expiry)

\* candidates_list of lines 249-259: the search strings of the remote search.
search_strings(name, expiry, strike, opt_type) ==
    IF strike.kind = "num"
    THEN <<name \o expiry_text(expiry) \o strike_i(strike) \o opt_type,
           name \o strike_i(strike) \o opt_type,
           name \o opt_type \o strike_i(strike),
           name>>
    ELSE <<name \o strike_i(strike) \o opt_type, name>>

\* (mutation: the catalog dump read before the candidate list)
local_sources_catalog_first(option_json, candidates, sm) ==
    <<[src |-> "option.json", entries |-> option_json],
      [src |-> "local_scripmaster", entries |-> sm],
      [src |-> "option_candidates.json", entries |-> candidates]>>

\* The three local files in the order lines 201-243 read them; a file that
\* is missing or holds nothing is the empty list.
local_sources(option_json, candidates, sm) ==
    <<[src |-> "option.json", entries |-> option_json],
      [src |-> "option_candidates.json", entries |-> candidates],
      [src |-> "local_scripmaster", entries |-> sm]>>

\* What try_find_token returns, with the sources it read and the search
\* strings it sent.
Found(token, src, query, consulted, searched) ==
    [token |-> token, src |-> src, query |-> query, consulted |-> consulted,
     searched |-> searched]

\* Lines 246-275 from search string number i on.  answers[i] is the answer
\* to the i-th request: an exception (timeout, HTTP error status, body that
\* is not JSON) or a list of entries.
RECURSIVE search_scrip(_, _, _, _, _)
search_scrip(q, strings, answers, i, consulted) ==
    IF i > Len(strings)
    THEN Found(NoToken, "none", <<>>, consulted, SubSeq(strings, 1, Len(strings)))
    ELSE LET a == answers[i]
             t == IF a.kind = "ok"
                  THEN find_token_from_entries(a.entries, q.name, q.expiry, q.strike,
                                               q.opt_type)
                  ELSE NoToken
         IN  IF t # NoToken
             THEN Found(t, "searchScrip", strings[i], consulted, SubSeq(strings, 1, i))
             ELSE search_scrip(q, strings, answers, i + 1, consulted)

\* Lines 201-243 from local source number i on.
RECURSIVE try_sources(_, _, _, _, _, _)
try_sources(q, sources, i, user_json, answers, consulted) ==
    IF i > Len(sources)
    THEN IF user_json
         THEN search_scrip(q, search_strings(q.name, q.expiry, q.strike, q.opt_type),
                           answers, 1, Append(consulted, "searchScrip"))
         ELSE Found(NoToken, "none", <<>>, consulted, <<>>)
    ELSE LET t == find_token_from_entries(sources[i].entries, q.name, q.expiry,
                                          q.strike, q.opt_type)
             seen == Append(consulted, sources[i].src)
         IN  IF t # NoToken THEN Found(t, sources[i].src, <<>>, seen, <<>>)
             ELSE try_sources(q, sources, i + 1, user_json, answers, seen)

try_find_token(q, option_json, candidates, sm, user_json, answers) ==
    try_sources(q, local_sources(option_json, candidates, sm), 1, user_json, answers,
                <<>>)

(***************************************************************************)
(* try_find_token as a function of its input: the request, the three local *)
(* files, whether user.json exists, and the answers of the remote search   *)
(***************************************************************************)

SYM_26000CE == <<"N", "I", "F", "T", "Y", "1", "3", "J", "A", "N", "2", "6", "2", "6", "0", "0", "0", "C", "E">>

SYM_26000PE == <<"N", "I", "F", "T", "Y", "1", "3", "J", "A", "N", "2", "6", "2", "6", "0", "0", "0", "P", "E">>

SYM_25000CE == <<"N", "I", "F", "T", "Y", "1", "3", "J", "A", "N", "2", "6", "2", "5", "0", "0", "0", "C", "E">>

RAW_13JAN == <<"1", "3", "J", "A", "N", "2", "0", "2", "6">>

\* The 26000 call by its trading symbol (no strike field that compares), the
\* 26000 put with its strike (26000.004), the 25000 call with its strike, the
\* 26000 call without a token, an element that is no dict.
E_CALL == Entry(SYM_26000CE, "T1", NoStrike, <<>>)

E_PUT == Entry(SYM_26000PE, "T2", Strike(26000004), PE)

E_OTHER == Entry(SYM_25000CE, "T3", Strike(25000000), CE)

E_NO_TOKEN == Entry(SYM_26000CE, NoToken, Strike(26000000), CE)

E_NOT_DICT == [shape |-> "not_dict", trad |-> <<>>, token |-> NoToken,
               strike |-> NoStrike, opt |-> <<>>]

Entries == {E_CALL, E_PUT, E_OTHER, E_NO_TOKEN, E_NOT_DICT}

SourceContents ==
    {<<>>} \cup {<<e>> : e \in {E_CALL, E_PUT, E_OTHER}}
    \cup {<<E_PUT, E_CALL>>, <<E_OTHER, E_CALL>>, <<E_NOT_DICT, E_PUT>>,
          <<E_NO_TOKEN, E_OTHER>>}

ResolverRequests ==
    {[name |-> NIFTY, expiry |-> RAW_13JAN, strike |-> Strike(26000000), opt_type |-> CE],
     [name |-> NIFTY, expiry |-> ISO_13JAN, strike |-> Strike(26000000), opt_type |-> PE],
     [name |-> NIFTY, expiry |-> <<>>, strike |-> NoStrike, opt_type |-> CE]}

SearchFails == [kind |-> "exception", entries |-> <<>>]

SearchAnswers(entries) == [kind |-> "ok", entries |-> entries]

\* The answers to the successive search requests of one call.
AnswerScripts ==
    {<<SearchFails, SearchFails, SearchFails, SearchFails>>,
     <<SearchAnswers(<<>>), SearchAnswers(<<>>), SearchAnswers(<<>>), SearchAnswers(<<>>)>>,
     <<SearchAnswers(<<E_CALL>>), SearchFails, SearchFails, SearchFails>>,
     <<SearchFails, SearchAnswers(<<E_OTHER>>), SearchFails, SearchAnswers(<<E_PUT>>)>>,
     <<SearchAnswers(<<E_OTHER>>), SearchAnswers(<<E_PUT, E_CALL>>), SearchFails,
       SearchFails>>}

NoOutcome == Found(NoToken, "none", <<>>, <<>>, <<>>)

InitResolver ==
    /\ pc = "idle"
    /\ exit_code = 0
    /\ trade \in SeedsOver({<<26000, 25000>>}, {20}, {<<5, 5>>}, {"list"})
    /\ hist = NoHist
    /\ selection = NoRun
    /\ ltp_fetch = NoRun
    /\ sched = NoSched
    /\ candles_file = NoList
    /\ vwap_run = NoRun
    /\ \E q \in ResolverRequests, option_json \in SourceContents,
          candidates \in SourceContents, sm \in SourceContents,
          user_json \in BOOLEAN, answers \in AnswerScripts :
          /\ ~user_json => answers = <<SearchFails, SearchFails, SearchFails, SearchFails>>
          /\ lookup = [kind |-> "request", request |-> q, option_json |-> option_json,
                       candidates |-> candidates, sm |-> sm, user_json |-> user_json,
                       answers |-> answers, outcome |-> NoOutcome]

TryFindToken ==
    /\ lookup.kind = "request"
    /\ lookup' = [lookup EXCEPT
                     !.kind = "resolved",
                     !.outcome = try_find_token(lookup.request, lookup.option_json,
                                                lookup.candidates, lookup.sm,
                                                lookup.user_json, lookup.answers)]
    /\ UNCHANGED <<engine_vars, selection, ltp_fetch, candles_file, vwap_run, sched>>

NextResolver == TryFindToken

SpecResolver == InitResolver /\ [][NextResolver]_vars

(***************************************************************************)
(* compute_vwap.py main: both legs of finalPair, each resolved and then     *)
(* processed                                                               *)
(***************************************************************************)

\* A leg of finalPair: an empty object, or a leg with or without symbolToken.
EmptyLeg == [kind |-> "empty", symbolToken |-> NoToken, request |-> [name |-> <<>>,
             expiry |-> <<>>, strike |-> NoStrike, opt_type |-> <<>>]]

Leg(token, q) == [kind |-> "leg", symbolToken |-> token, request |-> q]

MainRequests ==
    {[name |-> NIFTY, expiry |-> RAW_13JAN, strike |-> Strike(26000000), opt_type |-> CE],
     [name |-> NIFTY, expiry |-> RAW_13JAN, strike |-> Strike(25000000), opt_type |-> PE]}

MainLegs ==
    {EmptyLeg} \cup {Leg("T9", q) : q \in MainRequests}
    \cup {Leg(NoToken, q) : q \in MainRequests}

MainAnswers ==
    {<<SearchFails, SearchFails, SearchFails, SearchFails>>,
     <<SearchAnswers(<<>>), SearchAnswers(<<>>), SearchAnswers(<<>>), SearchAnswers(<<>>)>>,
     <<SearchFails, SearchAnswers(<<E_CALL>>), SearchFails, SearchFails>>}

MainScripts ==
    {AllExceptions,
     <<[kind |-> "ok",
        data |-> ListOf(<<[shape |-> "ok", high |-> 24, low |-> 20, close |-> 20,
                           vol |-> 1]>>)],
       ExceptionResponse, ExceptionResponse>>}

\* (mutation: a leg without a token goes on to the bars all the same)
resolve_side_always_found(side_obj, outcome) ==
    IF side_obj.kind = "empty" THEN "empty"
    ELSE IF side_obj.symbolToken # NoToken THEN "with_token"
    ELSE "token_found"

\* Lines 377-398 of process_instrument: which of its four ways the leg goes.
resolve_side(side_obj, outcome) ==
    IF side_obj.kind = "empty" THEN "empty"
    ELSE IF side_obj.symbolToken # NoToken THEN "with_token"
    ELSE IF outcome.token # NoToken THEN "token_found"
    ELSE "token_not_found"

\* process_instrument for one leg: the lookup it made (if any) and its result.
process_leg(side_obj, file, option_json, candidates, sm, user_json, answers, s1) ==
    LET looked_up == side_obj.kind = "leg" /\ side_obj.symbolToken = NoToken
        outcome == IF looked_up
                   THEN try_find_token(side_obj.request, option_json, candidates, sm,
                                       user_json, answers)
                   ELSE NoOutcome
        r == process_instrument(resolve_side(side_obj, outcome), file, s1,
                                AllExceptions, AllExceptions)
    IN  [side_obj |-> side_obj, looked_up |-> looked_up, outcome |-> outcome,
         answers |-> answers, result |-> r.result, attempts |-> r.attempts,
         file |-> r.file]

\* What one leg of a run is given: the leg, the answers to its search
\* requests (none are sent for a leg that needs no lookup) and the answer to
\* its live bar fetch (none is sent for an empty leg).
LegInputs ==
    {[side_obj |-> EmptyLeg, answers |-> <<SearchFails, SearchFails, SearchFails,
                                          SearchFails>>, s1 |-> AllExceptions]}
    \cup {[side_obj |-> Leg("T9", q),
           answers |-> <<SearchFails, SearchFails, SearchFails, SearchFails>>,
           s1 |-> s1] : q \in MainRequests, s1 \in MainScripts}
    \cup {[side_obj |-> Leg(NoToken, q), answers |-> a, s1 |-> s1] :
             q \in MainRequests, a \in MainAnswers, s1 \in MainScripts}

InitMain ==
    /\ pc = "idle"
    /\ exit_code = 0
    /\ trade \in SeedsOver({<<26000, 25000>>}, {20}, {<<5, 5>>}, {"list"})
    /\ hist = NoHist
    /\ selection = NoRun
    /\ ltp_fetch = NoRun
    /\ sched = NoSched
    /\ candles_file \in {NoList} \cup {ListOf(bars) : bars \in LadderSeries}
    /\ vwap_run = NoRun
    /\ lookup = NoRun

\* One run of main: the call leg, then the put leg.  candles_file is the
\* candle file of the call leg's token; the put leg's token has no file yet.
VwapMain ==
    /\ lookup = NoRun
    /\ \E option_json \in {<<>>, <<E_CALL>>}, sm \in {<<>>, <<E_OTHER>>},
          user_json \in BOOLEAN, call \in LegInputs, put \in LegInputs :
          \E call_res \in {process_leg(call.side_obj, candles_file, option_json, <<>>,
                                        sm, user_json, call.answers, call.s1)},
             put_res \in {process_leg(put.side_obj, NoList, option_json, <<>>, sm,
                                       user_json, put.answers, put.s1)} :
              /\ lookup' = [kind |-> "main", option_json |-> option_json, sm |-> sm,
                            user_json |-> user_json,
                            call |-> [side_obj |-> call.side_obj,
                                      looked_up |-> call_res.looked_up,
                                      answers |-> call_res.answers,
                                      outcome |-> call_res.outcome],
                            put |-> [side_obj |-> put.side_obj,
                                     looked_up |-> put_res.looked_up,
                                     answers |-> put_res.answers,
                                     outcome |-> put_res.outcome]]
              /\ vwap_run' = [kind |-> "main",
                              call |-> [result |-> call_res.result,
                                        attempts |-> call_res.attempts],
                              put |-> [result |-> put_res.result,
                                       attempts |-> put_res.attempts]]
              /\ candles_file' = call_res.file
    /\ UNCHANGED <<engine_vars, selection, ltp_fetch, sched>>

NextMain == VwapMain

SpecMain == InitMain /\ [][NextMain]_vars

(***************************************************************************)
(* Delta selector and hedge selector (option.greek.py, option_greek2.py)   *)
(***************************************************************************)

OptionKinds == {"CE", "PE"}

\* Strikes are kept in halves of a rupee (190 is 95.0, 215 is 107.5), deltas in
\* hundredths.  A delta of 0 also stands for a row without a usable delta.
ChainStrikes == {190, 200, 210, 215}

ChainDeltas == {0 - 20, 0, 20, 70}

TargetDeltas == {0 - 20, 20}

MaxChain == 3

ChainEntry(kind, strike, delta) ==
    [optionType |-> kind, strikePrice |-> strike, delta |-> delta]

ChainEntries ==
    {ChainEntry(k, s, d) : k \in OptionKinds, s \in ChainStrikes, d \in ChainDeltas}

\* A quoted chain has one row per kind and strike.
Chains ==
    {chain \in UNION {[1..n -> ChainEntries] : n \in 0..MaxChain} :
        \A i, j \in 1..Len(chain) :
            /\ chain[i].optionType = chain[j].optionType
            /\ chain[i].strikePrice = chain[j].strikePrice
            => i = j}

NoEntry == [optionType |-> "none"]

Min(a, b) == IF a <= b THEN a ELSE b

\* Python's min(options, key=...): the position of the first least key.
first_least(keys) ==
    CHOOSE i \in 1..Len(keys) :
        /\ \A j \in 1..Len(keys) : keys[i] <= keys[j]
        /\ \A j \in 1..(i - 1) : keys[j] > keys[i]

of_type(chain, opt_type) == SelectSeq(chain, LAMBDA x : x.optionType = opt_type)

get_delta(item) == item.delta

find_nearest_delta(options, target, opt_type) ==
    IF options = <<>> THEN NoEntry
    ELSE LET signed == IF opt_type = "PE" THEN 0 - Abs(target) ELSE Abs(target)
             keys == [i \in 1..Len(options) |-> Abs(get_delta(options[i]) - signed)]
         IN  options[first_least(keys)]

\* The Black-Scholes value: within [0, 1] for a call and [-1, 0] for a put.
bs_delta(option_type) == IF option_type = "CE" THEN 25 ELSE 0 - 25

get_delta_per_strike(item) ==
    IF item.delta # 0 THEN item.delta ELSE bs_delta(item.optionType)

\* option_greek2.py: min() over an empty list raises.
find_nearest_delta_2(chain, target_delta) ==
    LET ce_options == of_type(chain, "CE")
        pe_options == of_type(chain, "PE")
        ce_keys == [i \in 1..Len(ce_options) |->
                       Abs(get_delta_per_strike(ce_options[i]) - target_delta)]
        pe_keys == [i \in 1..Len(pe_options) |->
                       Abs(Abs(get_delta_per_strike(pe_options[i])) - target_delta)]
    IN  IF ce_options = <<>> \/ pe_options = <<>>
        THEN [kind |-> "raised"]
        ELSE [kind |-> "pair", CE |-> ce_options[first_least(ce_keys)],
              PE |-> pe_options[first_least(pe_keys)]]

\* (mutation: the strike compared without int())
strike_int_kept_whole(strike) == strike

\* int(float(x)) and int(round(x)) of a strike kept in halves; Python rounds a
\* half to the even neighbour.
strike_int(strike) == strike \div 2

strike_round(strike) ==
    IF strike % 2 = 0 \/ (strike \div 2) % 2 = 0
    THEN strike \div 2 ELSE strike \div 2 + 1

\* list.sort(key=distance) is stable: insert each pair after the pairs that
\* are not farther.
insert_by_distance(s, x) ==
    LET n == Cardinality({i \in 1..Len(s) : s[i].distance <= x.distance})
    IN  SubSeq(s, 1, n) \o <<x>> \o SubSeq(s, n + 1, Len(s))

RECURSIVE sort_by_distance(_)
sort_by_distance(pairs) ==
    IF pairs = <<>> THEN <<>>
    ELSE insert_by_distance(sort_by_distance(SubSeq(pairs, 1, Len(pairs) - 1)),
                            pairs[Len(pairs)])

first_n(s, n) == SubSeq(s, 1, Min(n, Len(s)))

delta_sign_allowed(option, opt_type) ==
    /\ ~(opt_type = "PE" /\ get_delta(option) > 0)
    /\ ~(opt_type = "CE" /\ get_delta(option) < 0)

hedge_row(option, opt_type, delta) ==
    [strikePrice |-> option.strikePrice, delta |-> delta, optionType |-> opt_type]

find_nearest_5rs_hedge_options(chain, sold_strike, opt_type) ==
    LET same_type == of_type(chain, opt_type)
        sold_strike_int == strike_int(sold_strike)
        allowed == SelectSeq(same_type, LAMBDA o : delta_sign_allowed(o, opt_type))
        at_5 == SelectSeq(allowed, LAMBDA o :
                    \/ strike_int(o.strikePrice) = sold_strike_int - 5
                    \/ strike_int(o.strikePrice) = sold_strike_int + 5)
        distances == sort_by_distance(
            [i \in 1..Len(allowed) |->
                [distance |-> Abs(strike_int(allowed[i].strikePrice) - sold_strike_int),
                 option |-> allowed[i]]])
        fill == IF Len(at_5) < 2 THEN first_n(distances, 2 - Len(at_5)) ELSE <<>>
        hedges == [i \in 1..Len(at_5) |-> hedge_row(at_5[i], opt_type, get_delta(at_5[i]))]
                  \o [i \in 1..Len(fill) |->
                        hedge_row(fill[i].option, opt_type, get_delta(fill[i].option))]
    IN  first_n(hedges, 2)

find_nearest_5rs_hedge_options_2(chain, sold_strike, opt_type) ==
    LET same_type == of_type(chain, opt_type)
        sold_strike_int == strike_round(sold_strike)
        others == SelectSeq(same_type, LAMBDA o :
                      strike_int(o.strikePrice) # sold_strike_int)
        distances == sort_by_distance(
            [i \in 1..Len(others) |->
                [distance |-> Abs(strike_int(others[i].strikePrice) - sold_strike_int),
                 option |-> others[i]]])
        closest == first_n(distances, 2)
    IN  [i \in 1..Len(closest) |->
            hedge_row(closest[i].option, opt_type, get_delta_per_strike(closest[i].option))]

\* fetch_option_greek of option.greek.py: both wings, then the hedges of each
\* wing around the strike just selected (0 when the kind has no row).
sold_strike_of(nearest) ==
    IF nearest = NoEntry THEN 0 ELSE nearest.strikePrice

select_wings(chain, target_delta) ==
    LET nearest_ce == find_nearest_delta(of_type(chain, "CE"), target_delta, "CE")
        nearest_pe == find_nearest_delta(of_type(chain, "PE"), target_delta, "PE")
    IN  [kind |-> "greek", chain |-> chain, target |-> target_delta,
         CE |-> nearest_ce, PE |-> nearest_pe,
         hedge_ce |-> find_nearest_5rs_hedge_options(
                          chain, sold_strike_of(nearest_ce), "CE"),
         hedge_pe |-> find_nearest_5rs_hedge_options(
                          chain, sold_strike_of(nearest_pe), "PE")]

\* next(x for x in rows if float(x.strikePrice) == strike): the first row of the
\* kind at the selected strike.
first_at_strike(rows, strike) ==
    rows[CHOOSE i \in 1..Len(rows) :
            /\ rows[i].strikePrice = strike
            /\ \A j \in 1..(i - 1) : rows[j].strikePrice # strike]

\* fetch_option_greek of option_greek2.py: the target is fixed at 0.20; the
\* rows saved as nearestCE / nearestPE are looked up again by strike.
select_wings_2(chain) ==
    LET nearest == find_nearest_delta_2(chain, 20)
    IN  IF nearest.kind = "raised"
        THEN [kind |-> "greek2", chain |-> chain, target |-> 20, raised |-> TRUE]
        ELSE [kind |-> "greek2", chain |-> chain, target |-> 20, raised |-> FALSE,
              CE |-> nearest.CE, PE |-> nearest.PE,
              nearestCE |-> first_at_strike(of_type(chain, "CE"), nearest.CE.strikePrice),
              nearestPE |-> first_at_strike(of_type(chain, "PE"), nearest.PE.strikePrice),
              hedge_ce |-> find_nearest_5rs_hedge_options_2(
                               chain, nearest.CE.strikePrice, "CE"),
              hedge_pe |-> find_nearest_5rs_hedge_options_2(
                               chain, nearest.PE.strikePrice, "PE")]

InitSelector ==
    /\ pc = "idle"
    /\ exit_code = 0
    /\ trade \in SeedsOver({<<26000, 25000>>}, {20}, {<<5, 5>>}, {"list"})
    /\ hist = NoHist
    /\ selection = NoRun
    /\ ltp_fetch = NoRun
    /\ sched = NoSched
    /\ candles_file = NoList
    /\ vwap_run = NoRun
    /\ lookup = NoRun

SelectWings ==
    /\ selection = NoRun
    /\ \E chain \in Chains, target_delta \in TargetDeltas :
          selection' = select_wings(chain, target_delta)
    /\ UNCHANGED <<engine_vars, vwap_vars, ltp_fetch, sched>>

SelectWings2 ==
    /\ selection = NoRun
    /\ \E chain \in Chains : selection' = select_wings_2(chain)
    /\ UNCHANGED <<engine_vars, vwap_vars, ltp_fetch, sched>>

NextSelector == SelectWings \/ SelectWings2

SpecSelector == InitSelector /\ [][NextSelector]_vars

(***************************************************************************)
(* Price fetch (trade.py, get_ltp_from_angel)                              *)
(***************************************************************************)

InitLtp ==
    /\ pc = "idle"
    /\ exit_code = 0
    /\ trade \in SeedsOver({<<26000, 25000>>}, {20}, {<<5, 5>>}, {"list"})
    /\ hist = NoHist
    /\ selection = NoRun
    /\ ltp_fetch = NoRun
    /\ sched = NoSched
    /\ candles_file = NoList
    /\ vwap_run = NoRun
    /\ lookup = NoRun

\* Lines 108-109 of update_premium_levels: the call price, then the put price.
FetchPremiums ==
    /\ ltp_fetch = NoRun
    /\ \E call_reply \in LtpOutcomes, put_reply \in LtpOutcomes :
          ltp_fetch' = [kind |-> "premiums",
                        call |-> [reply |-> call_reply, result |-> ltp_call(call_reply)],
                        put |-> [reply |-> put_reply, result |-> ltp_call(put_reply)]]
    /\ UNCHANGED <<engine_vars, vwap_vars, selection, sched>>

NextLtp == FetchPremiums

SpecLtp == InitLtp /\ [][NextLtp]_vars

(***************************************************************************)
(* fetch_candles_for_token alone: the replies to its successive requests   *)
(***************************************************************************)

\* A reply with the status code of the response (0 when requests.post raised);
\* the function saves the code of a non-JSON reply and reads it nowhere.
CandleReplies ==
    {[kind |-> r.kind, data |-> r.data, status_code |-> c] :
        r \in HttpResponses \ {ExceptionResponse}, c \in {200, 500}}
    \cup {[kind |-> "exception", data |-> NoList, status_code |-> 0]}

ReplyScripts == [1..(RETRIES + 1) -> CandleReplies]

InitFetch ==
    /\ pc = "idle"
    /\ exit_code = 0
    /\ trade \in SeedsOver({<<26000, 25000>>}, {20}, {<<5, 5>>}, {"list"})
    /\ hist = NoHist
    /\ selection = NoRun
    /\ ltp_fetch = NoRun
    /\ sched = NoSched
    /\ candles_file = NoList
    /\ vwap_run = NoRun
    /\ lookup = NoRun

\* One call of fetch_candles_for_token, as made at lines 423, 429 and 434.
FetchCandles ==
    /\ vwap_run = NoRun
    /\ \E script \in ReplyScripts :
          \E fetched \in {fetch_candles_for_token(script, candles_file)} :
              /\ vwap_run' = [kind |-> "fetch", script |-> script,
                              value |-> fetched.value, requests |-> fetched.requests,
                              slept |-> fetched.slept]
              /\ candles_file' = fetched.file
    /\ UNCHANGED <<engine_vars, selection, ltp_fetch, lookup, sched>>

NextFetch == FetchCandles

SpecFetch == InitFetch /\ [][NextFetch]_vars

(***************************************************************************)
(* scheduler.py: jobs, the market-hours test and the 2-minute timeout      *)
(***************************************************************************)

\* Instants at which the scheduler looks at its jobs: weekday (Monday 0) and
\* minute of the day.  Friday 09:14, 09:15, 15:30, 15:31 and Saturday 10:00.
Clock ==
    <<[weekday |-> 4, minute |-> 554], [weekday |-> 4, minute |-> 555],
      [weekday |-> 4, minute |-> 930], [weekday |-> 4, minute |-> 931],
      [weekday |-> 5, minute |-> 600]>>

is_market_open(now) ==
    IF now.weekday >= 5 THEN FALSE
    ELSE 555 <= now.minute /\ now.minute <= 930

\* timeout=120 of subprocess.run, in seconds
RUN_TIMEOUT == 120

\* Cap on the stage processes left behind by killed runs.
MaxOrphans == 1

Stages == {"auth", "vwap", "greek", "trade"}

\* time.sleep(1) of the loop, or time passing while subprocess.run waits
ClockAdvances ==
    /\ sched.at < Len(Clock)
    /\ sched' = [sched EXCEPT !.at = sched.at + 1]
    /\ UNCHANGED <<engine_vars, vwap_vars, selection, ltp_fetch>>

\* scheduler.run_strategy when the market is closed: it returns.
RunSkipped ==
    /\ pc = "idle"
    /\ ~is_market_open(Clock[sched.at])
    /\ sched' = [sched EXCEPT !.last = "closed"]
    /\ UNCHANGED <<engine_vars, vwap_vars, selection, ltp_fetch>>

\* scheduler.run_strategy when the market is open: run_strategy.py is started
\* and the scheduler waits for it.
RunStarted ==
    /\ pc = "idle"
    /\ is_market_open(Clock[sched.at])
    /\ pc' = "auth"
    /\ exit_code' = 0
    /\ sched' = [sched EXCEPT !.started = sched.at, !.elapsed = 0,
                              !.last = "started"]
    /\ UNCHANGED <<trade, hist, vwap_vars, selection, ltp_fetch>>

\* The run has been executing for the whole timeout.
RunTakesLong ==
    /\ pc \in Stages
    /\ sched.elapsed < RUN_TIMEOUT
    /\ sched' = [sched EXCEPT !.elapsed = RUN_TIMEOUT]
    /\ UNCHANGED <<engine_vars, vwap_vars, selection, ltp_fetch>>

\* TimeoutExpired: subprocess.run kills run_strategy.py, its direct child.
\* The stage process that run_strategy.py started is not signalled; it keeps
\* the record it loaded and goes on.
RunTimedOut ==
    /\ pc \in Stages
    /\ sched.elapsed = RUN_TIMEOUT
    /\ Cardinality(sched.orphans) < MaxOrphans
    /\ pc' = "idle"
    /\ exit_code' = 1
    /\ sched' = [sched EXCEPT !.elapsed = 0, !.last = "timeout",
                              !.orphans = sched.orphans
                                            \cup {[stage |-> pc, loaded |-> trade]}]
    /\ UNCHANGED <<trade, hist, vwap_vars, selection, ltp_fetch>>

\* What a stage saves when it gets to its end, from the record it loaded: the
\* authentication saves nothing, the selection saves nothing on a reply other
\* than 200.
StageSaves(stage, loaded) ==
    CASE stage = "vwap" ->
            {compute_vwap_main(loaded, cs, ps) : cs \in {"Below"}, ps \in {"Above"}}
      [] stage = "greek" ->
            {loaded, fetch_option_greek(26000, 25000, 20, 20, <<5, 5>>, <<5, 5>>)}
      [] stage = "trade" ->
            {update_premium_levels(loaded, p, p).trade : p \in {0, 20}}
      [] OTHER -> {loaded}

NextStage(stage) ==
    CASE stage = "auth" -> "vwap"
      [] stage = "vwap" -> "greek"
      [] stage = "greek" -> "trade"
      [] OTHER -> "idle"

\* run_strategy.run_step: the stage of the run ends; on exit status 0 the next
\* stage is started, otherwise the runner exits with 1.
StageExits ==
    /\ pc \in Stages
    /\ \E ok \in BOOLEAN :
          /\ exit_code' = IF ok THEN 0 ELSE 1
          /\ pc' = IF ok THEN NextStage(pc) ELSE "idle"
          /\ IF ok THEN trade' \in StageSaves(pc, trade) ELSE trade' = trade
          /\ Len(HedgeLog(trade')) <= MaxHedges
    /\ sched' = [sched EXCEPT !.last = IF pc' = "idle" THEN "ended" ELSE sched.last]
    /\ UNCHANGED <<hist, vwap_vars, selection, ltp_fetch>>

\* A stage left behind gets to its end: it saves what it computed from the
\* record it loaded, or ends without saving.
OrphanExits ==
    /\ \E o \in sched.orphans, saves \in BOOLEAN :
          /\ IF saves THEN trade' \in StageSaves(o.stage, o.loaded) ELSE trade' = trade
          /\ Len(HedgeLog(trade')) <= MaxHedges
          /\ sched' = [sched EXCEPT !.orphans = sched.orphans \ {o}]
    /\ UNCHANGED <<pc, exit_code, hist, vwap_vars, selection, ltp_fetch>>

InitScheduler ==
    /\ pc = "idle"
    /\ exit_code = 0
    /\ trade \in SeedsOver({<<26000, 25000>>}, {20}, {<<5, 5>>}, {"list"})
    /\ hist = NoHist
    /\ selection = NoRun
    /\ ltp_fetch = NoRun
    /\ sched = NoSched
    /\ candles_file = NoList
    /\ vwap_run = NoRun
    /\ lookup = NoRun

NextScheduler ==
    \/ ClockAdvances
    \/ RunSkipped
    \/ RunStarted
    \/ RunTakesLong
    \/ RunTimedOut
    \/ OrphanExits
    \/ StageExits

SpecScheduler == InitScheduler /\ [][NextScheduler]_vars

(***************************************************************************)
(* One evaluation cycle of trade.py with the replies of its two price      *)
(* fetches: the prices returned go into the status and the hedge branch.   *)
(***************************************************************************)

InitFetched ==
    /\ pc = "trade"
    /\ exit_code = 0
    /\ \E seed \in SeedsOver({<<26000, 25000>>}, {20}, {<<5, 5>>}, {"list"}),
          cs \in VwapStatuses, ps \in VwapStatuses :
          trade = compute_vwap_main(seed, cs, ps)
    /\ hist = NoHist
    /\ selection = NoRun
    /\ ltp_fetch = NoRun
    /\ sched = NoSched
    /\ candles_file = NoList
    /\ vwap_run = NoRun
    /\ lookup = NoRun

\* update_premium_levels: both fetches, the status, the hedge branch, the save.
EvaluateFetched ==
    /\ pc = "trade"
    /\ \E call_reply \in LtpOutcomes, put_reply \in LtpOutcomes :
          \E r \in {update_premium_levels(trade, get_ltp_from_angel(call_reply),
                                          get_ltp_from_angel(put_reply))} :
              /\ trade' = r.trade
              /\ exit_code' = IF r.raised THEN 1 ELSE 0
              /\ ltp_fetch' = [kind |-> "cycle",
                               call |-> [reply |-> call_reply,
                                         result |-> ltp_call(call_reply)],
                               put |-> [reply |-> put_reply,
                                        result |-> ltp_call(put_reply)],
                               loaded |-> trade]
    /\ pc' = "idle"
    /\ UNCHANGED <<hist, vwap_vars, selection, sched>>

NextFetched == EvaluateFetched

SpecFetched == InitFetched /\ [][NextFetched]_vars

(***************************************************************************)
(* option.greek.py / option_greek2.py: find_token_from_candidates          *)
(***************************************************************************)

SYM_26250CE == <<"N", "I", "F", "T", "Y", "1", "3", "J", "A", "N", "2", "6", "2", "6", "2", "5", "0", "C", "E">>

DASHED_13JAN == <<"1", "3", "-", "J", "a", "n", "-", "2", "0", "2", "6">>

\* A row of a search result in option_candidates.json, with the contract it
\* stands for (the row itself carries only the trading symbol and the token).
CandidateRow(ts, token, strike, kind) ==
    [tradingsymbol |-> ts, symboltoken |-> token, strike |-> strike, kind |-> kind]

R_25000CE == CandidateRow(SYM_25000CE, "T3", 25000, CE)

R_26000CE == CandidateRow(SYM_26000CE, "T1", 26000, CE)

R_26000PE == CandidateRow(SYM_26000PE, "T2", 26000, PE)

R_26250CE == CandidateRow(SYM_26250CE, "T4", 26250, CE)

R_NO_SYMBOL == CandidateRow(<<>>, "T5", 26000, CE)

CandidateRows == {R_25000CE, R_26000CE, R_26000PE, R_26250CE, R_NO_SYMBOL}

\* The rows of all sides and searches in the order the loops visit them.
CandidateLists ==
    {<<>>} \cup {<<r>> : r \in CandidateRows}
    \cup {<<r1, r2>> : r1 \in CandidateRows, r2 \in CandidateRows}

CandidateRequests ==
    {[name |-> NIFTY, expiry |-> e, strike |-> Strike(s * 1000), opt_type |-> k] :
        e \in {RAW_13JAN, DASHED_13JAN}, s \in {25000, 26000, 26250}, k \in {CE, PE}}

not_dash(c) == c # "-"

\* expiry.replace("-", "").upper()
expiry_key(expiry) == upper(SelectSeq(expiry, not_dash))

\* expiry_key[:5]
short_expiry(expiry) ==
    SubSeq(expiry_key(expiry), 1,
           IF Len(expiry_key(expiry)) < 5 THEN Len(expiry_key(expiry)) ELSE 5)

\* The four tests on a row: name, option type, strike digits and expiry, each
\* somewhere in the trading symbol.
candidate_matches(row, name, expiry, strike, opt_type) ==
    LET ts == upper(row.tradingsymbol)
    IN  /\ contains(ts, upper(name))
        /\ contains(ts, upper(opt_type))
        /\ contains(ts, strike_i(strike))
        /\ contains(ts, short_expiry(expiry)) \/ contains(ts, expiry_key(expiry))

\* The place of the first row that passes the tests, 0 when none does.
RECURSIVE first_candidate(_, _, _, _, _, _)
first_candidate(rows, i, name, expiry, strike, opt_type) ==
    IF i > Len(rows) THEN 0
    ELSE IF candidate_matches(rows[i], name, expiry, strike, opt_type) THEN i
    ELSE first_candidate(rows, i + 1, name, expiry, strike, opt_type)

\* The token of that row, "" when no row passes.
find_token_from_candidates(rows, name, expiry, strike, opt_type) ==
    IF first_candidate(rows, 1, name, expiry, strike, opt_type) = 0 THEN ""
    ELSE rows[first_candidate(rows, 1, name, expiry, strike, opt_type)].symboltoken

InitCandidates ==
    /\ pc = "idle"
    /\ exit_code = 0
    /\ trade \in SeedsOver({<<26000, 25000>>}, {20}, {<<5, 5>>}, {"list"})
    /\ hist = NoHist
    /\ selection = NoRun
    /\ ltp_fetch = NoRun
    /\ sched = NoSched
    /\ candles_file = NoList
    /\ vwap_run = NoRun
    /\ \E q \in CandidateRequests, rows \in CandidateLists :
          lookup = [kind |-> "candidates", request |-> q, rows |-> rows, row |-> 0,
                    token |-> ""]

FindTokenFromCandidates ==
    /\ lookup.kind = "candidates"
    /\ lookup' = [lookup EXCEPT
                     !.kind = "candidate_found",
                     !.row = first_candidate(lookup.rows, 1, lookup.request.name,
                                             lookup.request.expiry, lookup.request.strike,
                                             lookup.request.opt_type),
                     !.token = find_token_from_candidates(
                                   lookup.rows, lookup.request.name, lookup.request.expiry,
                                   lookup.request.strike, lookup.request.opt_type)]
    /\ UNCHANGED <<engine_vars, selection, ltp_fetch, candles_file, vwap_run, sched>>

NextCandidates == FindTokenFromCandidates

SpecCandidates == InitCandidates /\ [][NextCandidates]_vars

(***************************************************************************)
(* Strategy state machine: hedge log, exit, entry prices                   *)
(***************************************************************************)

IsPrefix(s, t) == Len(s) <= Len(t) /\ SubSeq(t, 1, Len(s)) = s

BelowLeg(t) ==
    t.finalPair.call.vwapStatus = "Below" \/ t.finalPair.put.vwapStatus = "Below"

\* C1: in a cycle of update_premium_levels whose exit_strategy is computed true,
\* no entry is appended to the hedge-history log, even when hedge_needed is
\* true and a leg is Below.
C1_NoHedgeInExitCycle ==
    [][(pc = "trade" /\ exit_code' = 0 /\ trade'.strategyStatus.exit_strategy)
          => Len(HedgeLog(trade')) <= Len(HedgeLog(trade))]_vars

\* C2: EXITED is terminal: once some cycle has produced exit_strategy = true,
\* no later cycle appends an entry to the hedge-history log.
C2_ExitedIsTerminal ==
    [][hist.everExited => Len(HedgeLog(trade')) <= Len(HedgeLog(trade))]_vars

\* C3: a cycle of update_premium_levels appends to the hedge-history log only
\* if hedge_needed is true and at least one leg is Below; a cycle that appends
\* appends exactly one entry and sets strategyStatus.hedge_active; a cycle in
\* which the condition is false leaves the log unchanged.
C3_HedgeOnlyWhenTriggered ==
    [][pc = "trade" =>
          LET saved == exit_code' = 0
              cond == saved /\ trade'.strategyStatus.hedge_needed /\ BelowLeg(trade)
              appended == HedgeLog(trade') # HedgeLog(trade)
          IN  /\ appended =>
                    /\ cond
                    /\ Len(HedgeLog(trade')) = Len(HedgeLog(trade)) + 1
                    /\ IsPrefix(HedgeLog(trade), HedgeLog(trade'))
                    /\ trade'.strategyStatus.hedge_active
              /\ ~cond => trade'.hedges = trade.hedges
              /\ (saved /\ ~cond) => ~trade'.strategyStatus.hedge_active]_vars

\* A cycle has just appended an entry and marked the hedge active.
C3_Witness ==
    /\ pc = "idle"
    /\ exit_code = 0
    /\ trade.strategyStatus.hedge_active
    /\ trade.strategyStatus.hedge_needed
    /\ BelowLeg(trade)
    /\ Len(HedgeLog(trade)) >= 1

\* C4: the hedge-history log is append-only across all stages: every entry once
\* persisted is still there, unmodified and in the same position, afterwards.
C4_HedgeLogAppendOnly ==
    [][IsPrefix(HedgeLog(trade), HedgeLog(trade'))]_vars

SameLegKeepsEntry(leg, leg2) ==
    (leg.ltp # 0 /\ leg2.strikePrice = leg.strikePrice) => leg2.ltp = leg.ltp

\* C5: the entry (sold) price of a leg, finalPair.call.ltp / finalPair.put.ltp,
\* is immutable once set: no later stage changes its persisted value.
C5_EntryPriceImmutable ==
    [][/\ SameLegKeepsEntry(trade.finalPair.call, trade'.finalPair.call)
       /\ SameLegKeepsEntry(trade.finalPair.put, trade'.finalPair.put)]_vars

SoldIsEntryElseLive(leg, sold, live) ==
    sold = IF leg.ltp # 0 THEN leg.ltp ELSE live

SoldAsBefore(leg, seen, sold) ==
    (leg.ltp # 0 /\ seen.strike = leg.strikePrice) => sold = seen.price

\* C7: the sold price used for a leg in a cycle is the leg's recorded entry
\* price when one was recorded and the live price otherwise; so for a leg with
\* a recorded entry price the sold price used is the same in every cycle.
C7_SoldPriceIsEntryPrice ==
    [][(pc = "trade" /\ exit_code' = 0) =>
          LET st == trade'.strategyStatus
          IN  /\ SoldIsEntryElseLive(trade.finalPair.call, st.sold_call, st.live_call)
              /\ SoldIsEntryElseLive(trade.finalPair.put, st.sold_put, st.live_put)
              /\ SoldAsBefore(trade.finalPair.call, hist.sold_call, st.sold_call)
              /\ SoldAsBefore(trade.finalPair.put, hist.sold_put, st.sold_put)]_vars

SoldTotal(st) == st.sold_call + st.sold_put

LiveTotal(st) == st.live_call + st.live_put

CountedBars(candles) == {i \in 1..Len(candles) : bar_is_counted(candles[i])}

RECURSIVE TotalVolume(_)
TotalVolume(candles) ==
    IF candles = <<>> THEN 0
    ELSE (IF bar_is_counted(Head(candles)) THEN bar_volume(Head(candles)) ELSE 0)
         + TotalVolume(Tail(candles))

\* C9: for every bar series whose total volume is greater than zero, the VWAP
\* returned by compute_vwap_from_candles lies between the minimum low and the
\* maximum high of the series (inclusive).
C9_VwapWithinRange ==
    (vwap_run.kind = "computed" /\ TotalVolume(vwap_run.candles) > 0) =>
        /\ vwap_run.vwap.kind = "num"
        /\ \E i \in CountedBars(vwap_run.candles) :
              vwap_run.candles[i].low <= vwap_run.vwap.value
        /\ \E i \in CountedBars(vwap_run.candles) :
              vwap_run.vwap.value <= vwap_run.candles[i].high

LadderOrder == <<"cached", "live_1min", "prev_day_1min", "hourly_30d">>

YieldedBars(a) == a.yield.kind = "list" /\ a.yield.bars # <<>>

\* C8: process_instrument tries the bar sources in the order cached bars, live
\* 1-minute current-session bars, live 1-minute previous-day bars, live 1-hour
\* 30-day bars; a later source is tried exactly when every earlier source
\* yielded no non-empty series (unavailable or empty); and the VWAP is computed
\* from the first non-empty series.
C8_LadderUntilNonEmpty ==
    (vwap_run.kind = "processed" /\ vwap_run.attempts # <<>>) =>
        LET a == vwap_run.attempts
        IN  /\ Len(a) <= Len(LadderOrder)
            /\ \A i \in 1..Len(a) : a[i].source = LadderOrder[i]
            /\ \A i \in 2..Len(LadderOrder) :
                  (i <= Len(a)) <=> (\A j \in 1..(i - 1) : j <= Len(a) /\ ~YieldedBars(a[j]))
            /\ \A i \in 1..Len(a) :
                  (YieldedBars(a[i]) /\ \A j \in 1..(i - 1) : ~YieldedBars(a[j]))
                      => vwap_run.candles = a[i].yield

\* C10: whenever the bar series obtained for an instrument is empty or has
\* total volume zero, process_instrument returns vwapStatus unknown with vwap
\* null and a vwapFailureReason that is not null.
C10_NoVolumeIsUnknown ==
    (/\ vwap_run.kind = "processed"
     /\ vwap_run.candles.kind = "list"
     /\ TotalVolume(vwap_run.candles.bars) = 0) =>
        /\ vwap_run.result.vwapStatus = "unknown"
        /\ vwap_run.result.vwap = NoFloat
        /\ vwap_run.result.vwapFailureReason # "None"

\* Bars were obtained, none of them traded, and the result says so.
C10_Witness ==
    /\ vwap_run.kind = "processed"
    /\ vwap_run.candles.kind = "list"
    /\ vwap_run.candles.bars # <<>>
    /\ TotalVolume(vwap_run.candles.bars) = 0
    /\ vwap_run.result.vwapFailureReason = "no_volume_or_bad_candles"

FailureReasons ==
    {"no_instrument", "token_not_found", "api_error_or_nonjson", "no_candles",
     "no_volume_or_bad_candles"}

\* C11: every result of process_instrument has exactly one of two shapes: vwap
\* a number, vwapStatus Above or Below and vwapFailureReason null; or vwap
\* null, vwapStatus unknown and vwapFailureReason one of no_instrument,
\* token_not_found, api_error_or_nonjson, no_candles, no_volume_or_bad_candles.
C11_ResultShapes ==
    vwap_run.kind = "processed" =>
        LET r == vwap_run.result
        IN  \/ /\ r.vwap.kind = "num"
               /\ r.vwapStatus \in {"Above", "Below"}
               /\ r.vwapFailureReason = "None"
            \/ /\ r.vwap = NoFloat
               /\ r.vwapStatus = "unknown"
               /\ r.vwapFailureReason \in FailureReasons

\* A call that ended without bars to compute from.
C11_Witness ==
    /\ vwap_run.kind = "processed"
    /\ vwap_run.result.vwapFailureReason = "no_candles"
    /\ vwap_run.result.vwapStatus = "unknown"

\* The close of the last bar of the series that has one.
LastClose(bars) ==
    LET I == {i \in 1..Len(bars) : bars[i].shape # "bad_close"}
        last == CHOOSE i \in I : \A j \in I : j <= i
    IN  bars[last].close

\* C12: when a VWAP is computed, the bias tag is Above if and only if the VWAP
\* is strictly greater than the close of the last bar of the series; otherwise
\* (equality included) it is Below.
C12_BiasTagStrict ==
    (vwap_run.kind = "processed" /\ vwap_run.result.vwap.kind = "num") =>
        LET bars == vwap_run.candles.bars
            vwap == compute_vwap_from_candles(bars).value
        IN  /\ vwap_run.result.vwapStatus = "Above" <=> vwap > LastClose(bars)
            /\ vwap_run.result.vwapStatus = "Below" <=> vwap <= LastClose(bars)

\* A VWAP equal to the last close, tagged Below.
C12_Witness ==
    /\ vwap_run.kind = "processed"
    /\ vwap_run.result.vwap.kind = "num"
    /\ compute_vwap_from_candles(vwap_run.candles.bars).value
          = LastClose(vwap_run.candles.bars)
    /\ vwap_run.result.vwapStatus = "Below"

\* Every field of the bar that the loop reads is a number (or absent, for the
\* volume).
IsParsable(c) == c.shape \notin {"bad_high", "bad_close", "bad_volume"}

\* C13: malformed bars are skipped without aborting: compute_vwap_from_candles
\* returns on a series what it returns on the sub-series without the malformed
\* bars, and a malformed bar contributes neither to the numerator nor to the
\* denominator.
C13_MalformedBarsSkipped ==
    vwap_run.kind = "computed" =>
        LET sub == SelectSeq(vwap_run.candles, IsParsable)
        IN  /\ vwap_run.vwap = compute_vwap_from_candles(sub)
            /\ vwap_run.sums = vwap_sums(sub, 1, 0, 0)

\* A VWAP was computed from a series holding a malformed bar.
C13_Witness ==
    /\ vwap_run.kind = "computed"
    /\ vwap_run.vwap.kind = "num"
    /\ \E i \in 1..Len(vwap_run.candles) : ~IsParsable(vwap_run.candles[i])

\* The index of the first occurrence of x in the sequence g.
FirstIndex(g, x) == CHOOSE i \in 1..Len(g) : g[i] = x /\ \A j \in 1..(i - 1) : g[j] # x

\* C17: build_symbol_variants is de-duplicated and deterministic: the returned
\* list holds no string twice, holds every generated string, keeps the strings
\* in the order of their first generation, and a second call with the same
\* input returns the identical list.
C17_VariantsDeduplicated ==
    lookup.kind \in {"built", "built_twice"} =>
        LET q == lookup.request
            g == raw_symbol_variants(q.name, q.expiry, q.strike, q.opt_type)
            out == lookup.variants
        IN  /\ \A i \in 1..Len(out) : \A j \in 1..Len(out) : out[i] = out[j] => i = j
            /\ {out[i] : i \in 1..Len(out)} = {g[i] : i \in 1..Len(g)}
            /\ \A i \in 1..Len(out) : \A j \in 1..Len(out) :
                  i < j => FirstIndex(g, out[i]) < FirstIndex(g, out[j])
            /\ lookup.kind = "built_twice" => lookup.again = out

\* Two calls on an input whose patterns coincide (no expiry could be
\* normalised), the coinciding strings returned once.
C17_Witness ==
    /\ lookup.kind = "built_twice"
    /\ normalize_expiry(lookup.request.expiry) = <<>>
    /\ lookup.request.name = NIFTY
    /\ Len(lookup.variants) < 12

SourceOrder == <<"option.json", "option_candidates.json", "local_scripmaster", "searchScrip">>

\* What the i-th local source gives for the request of the call.
LocalMatch(i) ==
    LET q == lookup.request
        file == <<lookup.option_json, lookup.candidates, lookup.sm>>[i]
    IN  find_token_from_entries(file, q.name, q.expiry, q.strike, q.opt_type)

\* What the answer to the i-th search request gives for the request of the call.
RemoteMatch(i) ==
    LET q == lookup.request
        a == lookup.answers[i]
    IN  IF a.kind = "ok"
        THEN find_token_from_entries(a.entries, q.name, q.expiry, q.strike, q.opt_type)
        ELSE NoToken

\* C14: try_find_token consults its sources in the order option.json,
\* option_candidates.json, scripmaster.json, remote search; the identifier
\* returned is the match of the first source in that order that holds a
\* match; the remote search is made only when the three local sources gave
\* no match.
C14_SourcesInOrder ==
    lookup.kind = "resolved" =>
        LET o == lookup.outcome
            hits == {i \in 1..3 : LocalMatch(i) # NoToken}
        IN  /\ Len(o.consulted) <= Len(SourceOrder)
            /\ \A i \in 1..Len(o.consulted) : o.consulted[i] = SourceOrder[i]
            /\ \A i \in hits :
                  (\A j \in hits : i <= j) =>
                      /\ o.token = LocalMatch(i)
                      /\ o.src = SourceOrder[i]
                      /\ Len(o.consulted) = i
            /\ (Len(o.consulted) = 4 \/ o.searched # <<>> \/ o.src = "searchScrip")
                  => hits = {}
            /\ (hits = {} /\ o.token # NoToken) =>
                  /\ o.src = "searchScrip"
                  /\ \E i \in 1..Len(lookup.answers) :
                        /\ o.token = RemoteMatch(i)
                        /\ \A j \in 1..(i - 1) : RemoteMatch(j) = NoToken

\* The candidate list held entries without a match and the catalog dump gave
\* the token.
C14_Witness ==
    /\ lookup.kind = "resolved"
    /\ lookup.candidates # <<>>
    /\ lookup.outcome.src = "local_scripmaster"
    /\ lookup.outcome.token # NoToken

\* The two strikes are numbers and agree to two decimals.
SameStrike(a, b) ==
    /\ a.kind = "num"
    /\ b.kind = "num"
    /\ RoundHalfEven(a.mills, 10) = RoundHalfEven(b.mills, 10)

\* C16: within one source, an entry whose strike equals the target strike
\* (rounded to 2 decimals) is accepted as a match even when its option kind
\* differs from the requested kind, provided the entry has a trading symbol
\* and an identifier: with no entry before it giving a token, its token is
\* what the source returns.  (The source is option.json, read first.)
C16_StrikeMatchIgnoresKind ==
    lookup.kind = "resolved" =>
        LET q == lookup.request
            file == lookup.option_json
            variants == build_symbol_variants(q.name, q.expiry, q.strike, q.opt_type)
        IN  \A i \in 1..Len(file) :
                (/\ file[i].shape = "dict"
                 /\ file[i].trad # <<>>
                 /\ file[i].token # NoToken
                 /\ SameStrike(file[i].strike, q.strike)
                 /\ ~contains(upper(file[i].opt), upper(q.opt_type))
                 /\ \A j \in 1..(i - 1) :
                       entry_token(file[j], variants, q.strike, q.opt_type) = NoToken)
                => /\ lookup.outcome.token = file[i].token
                   /\ lookup.outcome.src = "option.json"

\* A call was asked for and the put of the same strike was returned.
C16_Witness ==
    /\ lookup.kind = "resolved"
    /\ lookup.request.opt_type = CE
    /\ lookup.option_json = <<E_NOT_DICT, E_PUT>>
    /\ lookup.outcome.token = "T2"
    /\ lookup.outcome.src = "option.json"

\* No source holds a match for the request of this leg of the last run of main.
NoSourceMatches(leg) ==
    LET q == leg.side_obj.request
        none(entries) ==
            find_token_from_entries(entries, q.name, q.expiry, q.strike, q.opt_type)
                = NoToken
    IN  /\ none(lookup.option_json)
        /\ none(lookup.sm)
        /\ lookup.user_json =>
              \A i \in 1..Len(leg.answers) :
                  leg.answers[i].kind = "ok" => none(leg.answers[i].entries)

\* What C15 says of one leg (with its lookup and its result) and of the other
\* leg's result.
NotFoundIsSoft(leg, res, other, other_res) ==
    (leg.looked_up /\ NoSourceMatches(leg)) =>
        /\ leg.outcome.token = NoToken
        /\ leg.outcome.src = "none"
        /\ res.result.vwapFailureReason = "token_not_found"
        /\ res.result.vwapStatus = "unknown"
        /\ res.attempts = <<>>
        /\ other_res.result.vwapStatus \in {"Above", "Below", "unknown"}
        /\ (other.side_obj.kind = "leg" /\ other.side_obj.symbolToken # NoToken)
              => other_res.attempts # <<>>

\* C15: when no source yields a match, try_find_token returns not-found (no
\* identifier, source "none") without raising, also when the remote search
\* calls fail; process_instrument then reports token_not_found and attempts
\* no bar fetch for that leg, and the other leg is still processed.
C15_TokenNotFoundIsSoft ==
    lookup.kind = "main" =>
        /\ NotFoundIsSoft(lookup.call, vwap_run.call, lookup.put, vwap_run.put)
        /\ NotFoundIsSoft(lookup.put, vwap_run.put, lookup.call, vwap_run.call)

\* The call leg found no token, every search request having failed, and the
\* put leg got its bias.
C15_Witness ==
    /\ lookup.kind = "main"
    /\ lookup.call.looked_up
    /\ lookup.user_json
    /\ \A i \in 1..Len(lookup.call.answers) : lookup.call.answers[i].kind = "exception"
    /\ vwap_run.call.result.vwapFailureReason = "token_not_found"
    /\ vwap_run.put.result.vwapStatus \in {"Above", "Below"}

(***************************************************************************)
(* Delta selector and hedge selector                                       *)
(***************************************************************************)

SignedTarget(kind, target) == IF kind = "PE" THEN 0 - Abs(target) ELSE Abs(target)

Wing(kind) == IF kind = "CE" THEN selection.CE ELSE selection.PE

Selected(kind) ==
    /\ selection.kind \in {"greek", "greek2"}
    /\ selection.kind = "greek2" => ~selection.raised
    /\ Wing(kind) # NoEntry

\* The delta each selector ranks by: the quoted one in option.greek.py, the
\* quoted one or else the theoretical one in option_greek2.py.
RankedDelta(entry) ==
    IF selection.kind = "greek" THEN get_delta(entry) ELSE get_delta_per_strike(entry)

IsNearest(entry, kind) ==
    /\ entry.optionType = kind
    /\ \A i \in 1..Len(selection.chain) :
          selection.chain[i].optionType = kind =>
              Abs(RankedDelta(entry) - SignedTarget(kind, selection.target))
                  <= Abs(RankedDelta(selection.chain[i])
                         - SignedTarget(kind, selection.target))

\* C18: for each kind the entry the delta selector returns is a chain entry of
\* that kind whose delta is nearest to the signed target (+|target| for a call,
\* -|target| for a put) among all chain entries of that kind.
C18_NearestToSignedTarget ==
    \A kind \in OptionKinds : Selected(kind) => IsNearest(Wing(kind), kind)

HedgesOf(kind) == IF kind = "CE" THEN selection.hedge_ce ELSE selection.hedge_pe

HasHedges ==
    /\ selection.kind \in {"greek", "greek2"}
    /\ selection.kind = "greek2" => ~selection.raised

SignContradictsKind(h) ==
    \/ h.optionType = "PE" /\ h.delta > 0
    \/ h.optionType = "CE" /\ h.delta < 0

FromChainRowOfKind(h, kind) ==
    /\ h.optionType = kind
    /\ \E j \in 1..Len(selection.chain) :
          /\ selection.chain[j].optionType = kind
          /\ selection.chain[j].strikePrice = h.strikePrice

\* C19: the hedge selector returns at most 2 entries, each taken from a chain
\* row of the requested kind, and none whose delta sign contradicts its kind
\* (positive for a put, negative for a call).
C19_HedgesOfKindAndSign ==
    HasHedges =>
        \A kind \in OptionKinds :
            /\ Len(HedgesOf(kind)) <= 2
            /\ \A i \in 1..Len(HedgesOf(kind)) :
                  /\ FromChainRowOfKind(HedgesOf(kind)[i], kind)
                  /\ ~SignContradictsKind(HedgesOf(kind)[i])

At5Rows(kind) ==
    {j \in 1..Len(selection.chain) :
        /\ selection.chain[j].optionType = kind
        /\ delta_sign_allowed(selection.chain[j], kind)
        /\ Abs(strike_int(selection.chain[j].strikePrice)
               - strike_int(sold_strike_of(Wing(kind)))) = 5}

\* C20: when fewer than 2 eligible rows sit at the sold strike +/- 5, the hedge
\* selector of option.greek.py fills up from the other eligible rows, so its
\* output never holds the same strike twice.
C20_FillNeverRepeats ==
    selection.kind = "greek" =>
        \A kind \in OptionKinds :
            Cardinality(At5Rows(kind)) < 2 =>
                \A i, j \in 1..Len(HedgesOf(kind)) :
                    HedgesOf(kind)[i].strikePrice = HedgesOf(kind)[j].strikePrice => i = j

\* C21: no hedge entry returned for a wing has the strike of that wing's sold
\* row itself, whether it comes from the +/-5 rule or from the fallback.
C21_NoHedgeAtSoldStrike ==
    HasHedges =>
        \A kind \in OptionKinds :
            Wing(kind) # NoEntry =>
                \A i \in 1..Len(HedgesOf(kind)) :
                    HedgesOf(kind)[i].strikePrice # Wing(kind).strikePrice

EligibleAt(kind, offset) ==
    {j \in 1..Len(selection.chain) :
        /\ selection.chain[j].optionType = kind
        /\ ~SignContradictsKind(selection.chain[j])
        /\ selection.chain[j].strikePrice \div 2
               = (Wing(kind).strikePrice \div 2) + offset}

BothAt5(kind) ==
    /\ selection.kind = "greek"
    /\ Wing(kind) # NoEntry
    /\ EligibleAt(kind, 0 - 5) # {}
    /\ EligibleAt(kind, 5) # {}

TransportFailure(o) ==
    \/ o.kind # "response"
    \/ o.status_code < 200 \/ o.status_code > 299
    \/ o.body.json # "object"
    \/ o.body.status # "true"
    \/ o.body.data.kind # "object"
    \/ o.body.data.ltp.kind # "num"

FetchedLegs == IF ltp_fetch.kind = "premiums" THEN {ltp_fetch.call, ltp_fetch.put} ELSE {}

C24_EveryCycleSavesStatus ==
    [][pc = "trade" =>
          /\ exit_code' = 0
          /\ trade'.strategyStatus.kind = "set"]_vars

\* C25: once a cycle has saved a strategyStatus, every record saved later by
\* any stage still has it (and finalPair.call, finalPair.put and
\* hedgeOptions.call_5rs, which every record of the model has).
C25_KeyPathsStay ==
    [][trade.strategyStatus.kind = "set" => trade'.strategyStatus.kind = "set"]_vars

\* C28: the total_cost of a hedge-log entry is the sum of the live prices of
\* the call leg and the put leg recorded in that entry.
C28_TotalCostIsSumOfLegs ==
    \A i \in 1..Len(HedgeLog(trade)) :
        HedgeLog(trade)[i].total_cost
            = HedgeLog(trade)[i].call + HedgeLog(trade)[i].put

(***************************************************************************)
(* Candle fetch: retries and backoff                                       *)
(***************************************************************************)

TransportFailed(reply) ==
    \/ reply.kind = "exception"
    \/ reply.kind = "non_json"
    \/ reply.status_code # 0 /\ (reply.status_code < 200 \/ reply.status_code > 299)

\* C26: a request of a bar fetch that fails in transport (exception, non-2xx
\* reply, body that is not JSON) is followed by another request unless it was
\* the last of the bounded number of attempts.
C26_TransportFailuresRetried ==
    vwap_run.kind = "fetch" =>
        \A i \in 1..vwap_run.requests :
            TransportFailed(vwap_run.script[i]) =>
                i = RETRIES + 1 \/ vwap_run.requests > i

\* The attempts that raised: the leading exceptions of the script.
RaisedAttempts(script) ==
    {i \in 1..Len(script) : \A j \in 1..i : script[j].kind = "exception"}

RECURSIVE SumTo(_)
SumTo(n) == IF n = 0 THEN 0 ELSE n + SumTo(n - 1)

\* C27: a fetch makes at most 3 requests (one try and 2 retries), has slept
\* 1 second times the attempt number after each attempt that raised, and
\* returns unavailable once all attempts have raised.
C27_BoundedRetriesLinearBackoff ==
    vwap_run.kind = "fetch" =>
        /\ vwap_run.requests <= 3
        /\ vwap_run.requests = Min(Cardinality(RaisedAttempts(vwap_run.script)) + 1, 3)
        /\ vwap_run.slept = SumTo(Cardinality(RaisedAttempts(vwap_run.script)))
        /\ Cardinality(RaisedAttempts(vwap_run.script)) = 3 => vwap_run.value = NoList

C27_Witness ==
    /\ vwap_run.kind = "fetch"
    /\ Cardinality(RaisedAttempts(vwap_run.script)) = 3
    /\ vwap_run.requests = 3
    /\ vwap_run.slept = 6
    /\ vwap_run.value = NoList

(***************************************************************************)
(* Symbol resolver: the remote search                                      *)
(***************************************************************************)

RequestVariants ==
    build_symbol_variants(lookup.request.name, lookup.request.expiry,
                          lookup.request.strike, lookup.request.opt_type)

RemoteSearchMade ==
    /\ lookup.kind = "resolved"
    /\ lookup.outcome.searched # <<>>

\* C29: when the local sources miss, the strings sent to the remote search are
\* the symbol variants of build_symbol_variants in the order of that list, each
\* once, up to the first one whose answer holds a match, or all of them.
C29_SearchOncePerVariant ==
    RemoteSearchMade =>
        /\ IsPrefix(lookup.outcome.searched, RequestVariants)
        /\ lookup.outcome.token = NoToken => lookup.outcome.searched = RequestVariants
        /\ \A i, j \in 1..Len(lookup.outcome.searched) :
              lookup.outcome.searched[i] = lookup.outcome.searched[j] => i = j

(***************************************************************************)
(* Order of the stages within one run                                      *)
(***************************************************************************)

\* C30: when update_premium_levels runs, both legs of finalPair carry the
\* bias the VWAP stage of this run computed for them.
C30_BiasOfThisCycleIsRead ==
    pc = "trade" =>
        /\ trade.finalPair.call.vwapStatus \in VwapStatuses
        /\ trade.finalPair.put.vwapStatus \in VwapStatuses

StageOrder == <<"auth", "vwap", "greek", "trade">>

\* C31: the stages run in the order authentication, VWAP computation, delta
\* selection, trade evaluation; a stage starts only when the one before it
\* exited with 0, and a stage that exits non-zero ends the run with status 1.
C31_StagesInOrder ==
    [][pc' # pc =>
          \/ pc = "idle" /\ pc' = "auth"
          \/ \E i \in 1..3 : pc = StageOrder[i] /\ pc' = StageOrder[i + 1] /\ exit_code' = 0
          \/ pc = "trade" /\ pc' = "idle"
          \/ pc \in {"auth", "vwap", "greek"} /\ pc' = "idle" /\ exit_code' = 1]_vars

C31_Witness ==
    /\ pc = "idle"
    /\ exit_code = 1
    /\ trade.strategyStatus.kind = "absent"

(***************************************************************************)
(* Scheduler: one run at a time, only in market hours                      *)
(***************************************************************************)

\* C32: while a stage of a run executes, no stage of a run started earlier is
\* still executing (also after a run was stopped by the 2-minute timeout), and
\* a run is started only on Monday to Friday between 09:15 and 15:30.
C32_NoConcurrentCycles ==
    /\ pc \in Stages => sched.orphans = {}
    /\ sched.started # 0 => is_market_open(Clock[sched.started])

(***************************************************************************)
(* Hedge state across cycles                                               *)
(***************************************************************************)

\* A cycle of trade.py that saved: the step from "trade" to "idle" with status 0.
CycleSaved ==
    pc = "trade" /\ pc' = "idle" /\ exit_code' = 0

\* C33: once a cycle has persisted strategyStatus.hedge_active = true, the
\* strategyStatus persisted by every later cycle has hedge_active = true.
C33_HedgedStaysHedged ==
    [][CycleSaved /\ trade.strategyStatus.kind = "set"
                  /\ trade.strategyStatus.hedge_active
          => trade'.strategyStatus.hedge_active]_vars

(***************************************************************************)
(* A failed price fetch and the hedge                                      *)
(***************************************************************************)

\* The prices a leg whose fetch failed can have had.
QuotedPrices == Prices \ {0}

\* The prices of the two legs with a quoted price in place of each 0 that came
\* from a failed fetch.
PricesInstead ==
    {<<c, p>> \in Prices \X Prices :
        /\ IF TransportFailure(ltp_fetch.call.reply)
           THEN c \in QuotedPrices ELSE c = ltp_fetch.call.result.value
        /\ IF TransportFailure(ltp_fetch.put.reply)
           THEN p \in QuotedPrices ELSE p = ltp_fetch.put.result.value}

CycleInstead(cp) == update_premium_levels(ltp_fetch.loaded, cp[1], cp[2]).trade

\* C34: in a cycle where the price fetch of a leg failed and was returned as
\* 0, a hedge-history entry is appended, hedge_needed is true or
\* add_new_option is true only if the same holds for the prices the leg can
\* have had: none of them is brought about by the 0.
C34_FailedFetchTriggersNothing ==
    (/\ ltp_fetch.kind = "cycle"
     /\ exit_code = 0
     /\ TransportFailure(ltp_fetch.call.reply) \/ TransportFailure(ltp_fetch.put.reply))
    => \A cp \in PricesInstead :
          /\ trade.strategyStatus.hedge_needed
                => CycleInstead(cp).strategyStatus.hedge_needed
          /\ trade.strategyStatus.add_new_option
                => CycleInstead(cp).strategyStatus.add_new_option
          /\ Len(HedgeLog(trade)) > Len(HedgeLog(ltp_fetch.loaded))
                => Len(HedgeLog(CycleInstead(cp))) > Len(HedgeLog(ltp_fetch.loaded))

\* C35: once the hedge log holds an entry for the current pair (the selection
\* of a new pair replaces the record and its log), a later cycle appends no
\* further entry, also when the trigger still holds.
C35_HedgeFiresOnce ==
    [][CycleSaved /\ Len(HedgeLog(trade)) >= 1
          => HedgeLog(trade') = HedgeLog(trade)]_vars

(***************************************************************************)
(* Symbol match before strike match                                        *)
(***************************************************************************)

\* The entry list in which the resolved call found its token.
YieldingEntries ==
    CASE lookup.outcome.src = "option.json" -> lookup.option_json
      [] lookup.outcome.src = "option_candidates.json" -> lookup.candidates
      [] lookup.outcome.src = "local_scripmaster" -> lookup.sm
      [] lookup.outcome.src = "searchScrip" ->
            lookup.answers[Len(lookup.outcome.searched)].entries
      [] OTHER -> <<>>

\* The entries of a list that have a trading symbol and a token and whose
\* trading symbol contains a generated variant of the request.
SymbolMatches(entries) ==
    {i \in 1..Len(entries) :
        /\ entries[i].shape = "dict"
        /\ entries[i].trad # <<>>
        /\ entries[i].token # NoToken
        /\ symbol_match(entries[i],
                        build_symbol_variants(lookup.request.name, lookup.request.expiry,
                                              lookup.request.strike,
                                              lookup.request.opt_type))}

\* C36: when the entry list contains an entry whose trading symbol contains a
\* generated variant, the identifier returned is that of such an entry, never
\* that of an entry matching only by strike, whatever the order of the list.
C36_SymbolMatchPreferred ==
    (/\ lookup.kind = "resolved"
     /\ lookup.outcome.token # NoToken
     /\ SymbolMatches(YieldingEntries) # {})
    => \E i \in SymbolMatches(YieldingEntries) :
          YieldingEntries[i].token = lookup.outcome.token

(***************************************************************************)
(* The cached bar series                                                   *)
(***************************************************************************)

\* The requests made by the call whose outcome is in vwap_run.
RECURSIVE RequestsMade(_)
RequestsMade(attempts) ==
    IF attempts = <<>> THEN 0
    ELSE Head(attempts).requests + RequestsMade(Tail(attempts))

\* C37: once a non-empty bar series is cached for an identifier, a later
\* process_instrument call for it makes no bar fetch, leaves the cache as it
\* is and computes its result from the cached series, so the result is the
\* same in every later cycle.
C37_CachedSeriesIsReused ==
    [][(/\ ~is_none_or_empty(candles_file)
        /\ vwap_run'.kind = "processed"
        /\ vwap_run'.attempts # <<>>)
          => /\ RequestsMade(vwap_run'.attempts) = 0
             /\ candles_file' = candles_file
             /\ vwap_run'.candles = candles_file
             /\ vwap_run'.result = vwap_result(candles_file)]_vars

C37_Witness ==
    /\ ~is_none_or_empty(candles_file)
    /\ vwap_run.kind = "processed"
    /\ Len(vwap_run.attempts) = 1
    /\ vwap_run.attempts[1].source = "cached"
    /\ vwap_run.candles = candles_file
    /\ vwap_run.result.vwapStatus = "Above"

(***************************************************************************)
(* find_token_from_candidates returns the requested contract               *)
(***************************************************************************)

\* C38: the row whose identifier find_token_from_candidates returns is the
\* requested contract: its strike is the requested integer strike and its kind
\* the requested kind.
C38_ReturnedRowIsRequested ==
    (lookup.kind = "candidate_found" /\ lookup.row # 0)
    => /\ lookup.rows[lookup.row].strike * 1000 = lookup.request.strike.mills
       /\ lookup.rows[lookup.row].kind = lookup.request.opt_type

(***************************************************************************)
(* The signals of one status                                               *)
(***************************************************************************)

\* C39: in every persisted strategyStatus computed from non-negative prices,
\* add_new_option = true implies hedge_needed = true.
C39_AddNewImpliesHedgeNeeded ==
    (trade.strategyStatus.kind = "set" /\ trade.strategyStatus.add_new_option)
    => trade.strategyStatus.hedge_needed

C39_Witness ==
    /\ pc = "idle"
    /\ trade.strategyStatus.kind = "set"
    /\ trade.strategyStatus.add_new_option
    /\ trade.strategyStatus.hedge_needed
    /\ trade.strategyStatus.live_call + trade.strategyStatus.live_put > 0

\* C40: in every persisted strategyStatus, exit_strategy = true implies
\* live_loss > 0, that is hedge_needed = true: a cycle whose live total is above
\* the 40% threshold does not set exit_strategy.
C40_ExitOnlyOnLossSide ==
    (trade.strategyStatus.kind = "set" /\ trade.strategyStatus.exit_strategy)
    => /\ trade.strategyStatus.live_loss > 0
       /\ trade.strategyStatus.hedge_needed

====
